---- MODULE Spec2Model ----
(***************************************************************************)
(* Model of the csmpe Pre-Migrate plugin (pre_migrate.py), the node-status *)
(* check it runs as a sub-step (csm_node_status_check/ios_xr/plugin.py)    *)
(* and the helpers of migration_lib.py.                                    *)
(*                                                                         *)
(* Device text is modelled at two levels.  Node names, card types and      *)
(* release numbers, on which the code runs regular expressions, substring  *)
(* tests and string comparisons, are sequences of one-character strings.   *)
(* The output of a whole command is the set of markers it contains, or     *)
(* one of a few sample outputs.                                            *)
(***************************************************************************)
EXTENDS Integers, Sequences, FiniteSets, TLC

\* ------------------------------------------------------------------------
\* Text primitives: Python's str and re, on sequences of characters
\* ------------------------------------------------------------------------

DigitChars == <<"0", "1", "2", "3", "4", "5", "6", "7", "8", "9">>

IsDigit(c) == \E i \in 1..10 : DigitChars[i] = c

\* ord(c) for the characters of a release number
Ord(c) == IF c = "." THEN 46 ELSE 47 + (CHOOSE i \in 1..10 : DigitChars[i] = c)

\* str(n) for 0 <= n < 100
Dec(n) == IF n < 10 THEN <<DigitChars[n + 1]>>
          ELSE <<DigitChars[(n \div 10) + 1], DigitChars[(n % 10) + 1]>>

\* a < b on Python strings: lexicographic on code points, a proper prefix is smaller
StrLess(a, b) ==
    LET n == IF Len(a) < Len(b) THEN Len(a) ELSE Len(b)
        diff == {i \in 1..n : a[i] # b[i]}
    IN  IF diff = {} THEN Len(a) < Len(b)
        ELSE LET k == CHOOSE i \in diff : \A j \in diff : i <= j
             IN  Ord(a[k]) < Ord(b[k])

\* t in s on Python strings
Contains(s, t) == \E i \in 1..(Len(s) - Len(t) + 1) : SubSeq(s, i, i + Len(t) - 1) = t

\* A regular expression is matched left to right on a set of positions: each
\* piece maps the positions where it may start to the positions where it may end.
Lit(s, P, lit) == {p + Len(lit) : p \in {q \in P : q + Len(lit) - 1 <= Len(s)
                                               /\ SubSeq(s, q, q + Len(lit) - 1) = lit}}

\* lit? (or lit??: the same positions, tried in the other order)
Opt(s, P, lit) == P \cup Lit(s, P, lit)

\* \d+
Digits1(s, P) == {j \in 2..(Len(s) + 1) : \E p \in P : p < j /\ \A k \in p..(j - 1) : IsDigit(s[k])}

\* ROUTEPROCESSOR_RE = '\d+/RS??P\d+/CPU\d+', used with match()
ROUTEPROCESSOR_RE(s) ==
    LET p1 == Lit(s, Digits1(s, {1}), <<"/">>)
        p2 == Lit(s, Opt(s, Lit(s, p1, <<"R">>), <<"S">>), <<"P">>)
        p3 == Lit(s, Digits1(s, p2), <<"/", "C", "P", "U">>)
    IN  Digits1(s, p3) # {}

\* LINECARD_RE = '\d+/\d+/CPU\d+' (no function of the plugin uses it)
LINECARD_RE(s) ==
    LET p1 == Lit(s, Digits1(s, {1}), <<"/">>)
        p2 == Lit(s, Digits1(s, p1), <<"/", "C", "P", "U">>)
    IN  Digits1(s, p2) # {}

\* NODE = '(\d+/(?:RS?P)?\d+/CPU\d+)', used with match()
NODE(s) ==
    LET p1 == Lit(s, Digits1(s, {1}), <<"/">>)
        p2 == p1 \cup Lit(s, Opt(s, Lit(s, p1, <<"R">>), <<"S">>), <<"P">>)
        p3 == Lit(s, Digits1(s, p2), <<"/", "C", "P", "U">>)
    IN  Digits1(s, p3) # {}

\* FAN = '\d+/FT\d+/SP', used with match()
FAN(s) ==
    LET p1 == Lit(s, Digits1(s, {1}), <<"/", "F", "T">>)
    IN  Lit(s, Digits1(s, p1), <<"/", "S", "P">>) # {}

\* mutant: the power-module pattern matches every node name
PemMatchesAnyNode(s) == Len(s) > 0

\* PEM = '\d+/P[SM]\d+/M?\d+/SP', used with match()
PEM(s) ==
    LET p1 == Lit(s, Digits1(s, {1}), <<"/", "P">>)
        p2 == Lit(s, p1, <<"S">>) \cup Lit(s, p1, <<"M">>)
        p3 == Opt(s, Lit(s, Digits1(s, p2), <<"/">>), <<"M">>)
    IN  Lit(s, Digits1(s, p3), <<"/", "S", "P">>) # {}

\* re.search("(\d\.\d\.\d).*", os_version): group(1) of the leftmost match, <<>> when none
MatchVersion(v) ==
    LET hits == {i \in 1..(Len(v) - 4) :
                    /\ IsDigit(v[i]) /\ v[i + 1] = "." /\ IsDigit(v[i + 2])
                    /\ v[i + 3] = "." /\ IsDigit(v[i + 4])}
    IN  IF hits = {} THEN <<>>
        ELSE LET k == CHOOSE i \in hits : \A j \in hits : i <= j
             IN  SubSeq(v, k, k + 4)

MINIMUM_RELEASE_VERSION_FOR_MIGRATION == <<"5", ".", "3", ".", "3">>
RELEASE_VERSION_DOES_NOT_NEED_FPD_SMU == <<"6", ".", "1", ".", "1">>

VALID_STATE == {"IOS XR RUN", "PRESENT", "READY", "OK"}

FPDS_CHECK_FOR_UPGRADE == {"cbc", "rommon", "fpga2", "fsbl", "lnxfw", "fpga8", "fclnxfw", "fcfsbl"}

\* ------------------------------------------------------------------------
\* The device: node names, card types, the supported-hardware table
\* ------------------------------------------------------------------------

\* "0/RSP0/CPU0", "0/1/CPU0", "0/FT0/SP", "0/PM0/0/SP"
RSP0 == <<"0", "/", "R", "S", "P", "0", "/", "C", "P", "U", "0">>
LC1 == <<"0", "/", "1", "/", "C", "P", "U", "0">>
FT0 == <<"0", "/", "F", "T", "0", "/", "S", "P">>
PM0 == <<"0", "/", "P", "M", "0", "/", "0", "/", "S", "P">>

\* card types: "A-RSP4", "A-RSP2", "A-8X1", "A-40G", "9-FAN", "9-3KW"
TypeRSP4 == <<"A", "-", "R", "S", "P", "4">>
TypeRSP2 == <<"A", "-", "R", "S", "P", "2">>
Type8X1 == <<"A", "-", "8", "X", "1">>
Type40G == <<"A", "-", "4", "0", "G">>
TypeFAN == <<"9", "-", "F", "A", "N">>
Type3KW == <<"9", "-", "3", "K", "W">>

\* supported_hw[exr_version] of migration_supported_hw.json: a list of card
\* substrings per role; <<>> is a role the entry lacks (dict.get gives None)
HwFull == [RP |-> <<<<"R", "S", "P", "4">>>>, LC |-> <<<<"8", "X", "1">>>>,
           FAN |-> <<<<"F", "A", "N">>>>, PEM |-> <<<<"3", "K", "W">>>>]
HwNoLC == [HwFull EXCEPT !.LC = <<>>]
HwEmpty == [RP |-> <<>>, LC |-> <<>>, FAN |-> <<>>, PEM |-> <<>>]

\* an entry of the table is truthy unless it is the empty dict
HwTruthy(hw) == hw # HwEmpty

\* the "inventory" data stored by an earlier node-status run (or by another
\* producer, which may list fans): node name -> [type, state]
Entry(t, st) == [type |-> t, state |-> st, config_state |-> "PWR,NSHUT,MON"]

StoredInventories ==
    {[n \in {RSP0, LC1} |-> IF n = RSP0 THEN r ELSE l] :
        r \in {Entry(TypeRSP4, "IOS XR RUN"), Entry(TypeRSP2, "IOS XR RUN"),
               Entry(TypeRSP4, "UNPOWERED"), Entry(TypeRSP4, "PRESENT")},
        l \in {Entry(Type8X1, "IOS XR RUN"), Entry(Type40G, "IOS XR RUN"),
               Entry(Type8X1, "UNPOWERED")}}
    \cup
    {[n \in {RSP0, FT0, PM0} |-> IF n = RSP0 THEN Entry(TypeRSP4, "IOS XR RUN")
                                 ELSE IF n = FT0 THEN f ELSE p] :
        f \in {Entry(TypeFAN, "READY"), Entry(TypeFAN, "FAILED")},
        p \in {Entry(Type3KW, "READY"), Entry(TypeRSP2, "READY")}}

\* ------------------------------------------------------------------------
\* Hardware gate
\* ------------------------------------------------------------------------

\* supported_type in value['type'] for some supported_type of the list
TypeSupported(type, supported_type_list) ==
    \E i \in 1..Len(supported_type_list) : Contains(type, supported_type_list[i])

\* card_pattern.match(node_name) for the three patterns the gate compiles
PatternMatch(card_pattern, node_name) ==
    CASE card_pattern = "RP" -> ROUTEPROCESSOR_RE(node_name)
      [] card_pattern = "FAN" -> FAN(node_name)
      [] card_pattern = "PEM" -> PEM(node_name)

\* mutant: the state of a card of a supported type is not looked at
CheckTypeBeforeState(node_name, card_pattern, value, supported_type_list) ==
    IF ~PatternMatch(card_pattern, node_name) THEN "no_match"
    ELSE IF supported_type_list = <<>> THEN "missing_list"
    ELSE IF TypeSupported(value.type, supported_type_list) THEN "ok"
    ELSE IF value.state \notin VALID_STATE THEN "invalid_state"
    ELSE "unsupported"

\* _check_if_supported_and_in_valid_state: "no_match" is the return of False,
\* "ok" the return of True, anything else the ctx.error that is raised
CheckIfSupportedAndInValidState(node_name, card_pattern, value, supported_type_list) ==
    IF ~PatternMatch(card_pattern, node_name) THEN "no_match"
    ELSE IF value.state \notin VALID_STATE THEN "invalid_state"
    ELSE IF supported_type_list = <<>> THEN "missing_list"
    ELSE IF ~TypeSupported(value.type, supported_type_list) THEN "unsupported"
    ELSE "ok"

\* mutant: a node that matches no pattern has its state checked all the same
GateNodeUnmatchedChecked(key, value, hw) ==
    LET rp == CheckIfSupportedAndInValidState(key, "RP", value, hw.RP)
        fan == CheckIfSupportedAndInValidState(key, "FAN", value, hw.FAN)
        pem == CheckIfSupportedAndInValidState(key, "PEM", value, hw.PEM)
    IN  IF rp # "no_match" THEN rp ELSE IF fan # "no_match" THEN fan
        ELSE IF pem # "no_match" THEN pem
        ELSE IF value.state \notin VALID_STATE THEN "invalid_state" ELSE "no_match"

\* the body of the loop of _check_if_rp_fan_pem_supported_and_in_valid_state
\* for one node: RP, then FAN, then PEM, the first pattern that matches decides
GateNode(key, value, hw) ==
    LET rp == CheckIfSupportedAndInValidState(key, "RP", value, hw.RP)
        fan == CheckIfSupportedAndInValidState(key, "FAN", value, hw.FAN)
        pem == CheckIfSupportedAndInValidState(key, "PEM", value, hw.PEM)
    IN  IF rp # "no_match" THEN rp ELSE IF fan # "no_match" THEN fan ELSE pem

\* the errors the gate can raise on an inventory: the loop follows the dict's
\* order, so the first violating node it meets is any of them
GateViolations(inv, hw) ==
    {GateNode(k, inv[k], hw) : k \in DOMAIN inv} \ {"no_match", "ok"}

\* _get_supported_iosxr_run_nodes, once RP and LC are known to be listed
SupportedIosxrRunNodes(inv, hw) ==
    {k \in DOMAIN inv : /\ NODE(k)
                        /\ inv[k].state = "IOS XR RUN"
                        /\ TypeSupported(inv[k].type, hw.RP \o hw.LC)}

\* ------------------------------------------------------------------------
\* Session automaton: events, transition tables, action callbacks
\* ------------------------------------------------------------------------

TIMEOUT_FOR_COPY_CONFIG == 3600
TIMEOUT_FOR_COPY_IMAGE == 960
TIMEOUT_FOR_FPD_UPGRADE == 9600

\* What the device can print while an automaton waits, and the patterns of the
\* event lists each text matches.  "" is silence until the wait times out.
PromptText == "RP/0/RSP0/CPU0:R#"
FilenameText == "Destination filename [/harddiskb:/f]?"
OverwriteText == "Copy : Destination exists, overwrite ?[confirm]"
CopiedText == "1024 bytes copied in 2 sec"
NoSourceText == "%Error copying tftp://h/f (Error opening source file): No such file or directory"
ErrorCopyingText == "%Error copying tftp://h/f (Permission denied)"
PasswordText == "Password:"
SftpOverwriteText == "Overwrite /harddiskb:/f continue? [yes/no]:"
NotExistText == "src /d/f does not exist"
AbortedText == "Download aborted."
ContinueText == "Continue? [confirm]"
ContinueSecondText == "Continue ? [no]:"
UpgradeEndText == "FPD upgrade has ended."

\* re.search of a compiled event pattern in the text
Matches(pattern, text) ==
    <<pattern, text>> \in
        {<<"PROMPT", PromptText>>, <<"TIMEOUT", "">>,
         <<"CONFIRM_FILENAME", FilenameText>>, <<"CONFIRM_OVERWRITE", OverwriteText>>,
         <<"COPIED", CopiedText>>,
         <<"NO_SUCH_FILE", NoSourceText>>,
         <<"ERROR_COPYING", NoSourceText>>, <<"ERROR_COPYING", ErrorCopyingText>>,
         <<"PASSWORD", PasswordText>>, <<"SFTP_CONFIRM_OVERWRITE", SftpOverwriteText>>,
         <<"SFTP_COPIED", CopiedText>>,
         <<"SFTP_NO_SUCH_FILE", NotExistText>>, <<"DOWNLOAD_ABORTED", AbortedText>>,
         <<"CONFIRM_CONTINUE", ContinueText>>, <<"CONFIRM_SECOND_TIME", ContinueSecondText>>,
         <<"UPGRADE_END", UpgradeEndText>>}

AllTexts == {PromptText, "", FilenameText, OverwriteText, CopiedText, NoSourceText,
             ErrorCopyingText, PasswordText, SftpOverwriteText, NotExistText, AbortedText,
             ContinueText, ContinueSecondText, UpgradeEndText}

Tr(e, S, n, a, t) == [event |-> e, states |-> S, next |-> n, action |-> a, timeout |-> t]

\* mutant: the generic error marker is listed before the specific one
FtpEventsGenericFirst ==
    <<"PROMPT", "CONFIRM_FILENAME", "CONFIRM_OVERWRITE", "COPIED", "TIMEOUT",
      "ERROR_COPYING", "NO_SUCH_FILE">>

\* _copy_files_from_ftp_tftp_to_device
FtpEvents == <<"PROMPT", "CONFIRM_FILENAME", "CONFIRM_OVERWRITE", "COPIED", "TIMEOUT",
               "NO_SUCH_FILE", "ERROR_COPYING">>

\* mutant: the prompt ends the run in state 2 as well
FtpTransitionsPromptFromTwo(timeout) ==
    << Tr("CONFIRM_FILENAME", {0}, 1, "send_newline", timeout),
       Tr("CONFIRM_OVERWRITE", {1}, 2, "send_newline", timeout),
       Tr("COPIED", {1, 2}, 3, "None", 20),
       Tr("PROMPT", {2, 3}, -1, "None", 0),
       Tr("TIMEOUT", {0, 1, 2, 3}, -1, "error", 0),
       Tr("NO_SUCH_FILE", {0, 1, 2, 3}, -1, "error", 0),
       Tr("ERROR_COPYING", {0, 1, 2, 3}, -1, "error", 0) >>

\* mutant: the COPIED transition also applies in state 0
FtpTransitionsCopiedFromZero(timeout) ==
    << Tr("CONFIRM_FILENAME", {0}, 1, "send_newline", timeout),
       Tr("CONFIRM_OVERWRITE", {1}, 2, "send_newline", timeout),
       Tr("COPIED", {0, 1, 2}, 3, "None", 20),
       Tr("PROMPT", {3}, -1, "None", 0),
       Tr("TIMEOUT", {0, 1, 2, 3}, -1, "error", 0),
       Tr("NO_SUCH_FILE", {0, 1, 2, 3}, -1, "error", 0),
       Tr("ERROR_COPYING", {0, 1, 2, 3}, -1, "error", 0) >>

\* mutant: the error markers are not handled in state 3
FtpTransitionsNoErrorInThree(timeout) ==
    << Tr("CONFIRM_FILENAME", {0}, 1, "send_newline", timeout),
       Tr("CONFIRM_OVERWRITE", {1}, 2, "send_newline", timeout),
       Tr("COPIED", {1, 2}, 3, "None", 20),
       Tr("PROMPT", {3}, -1, "None", 0),
       Tr("TIMEOUT", {0, 1, 2, 3}, -1, "error", 0),
       Tr("NO_SUCH_FILE", {0, 1, 2}, -1, "error", 0),
       Tr("ERROR_COPYING", {0, 1, 2}, -1, "error", 0) >>

FtpTransitions(timeout) ==
    << Tr("CONFIRM_FILENAME", {0}, 1, "send_newline", timeout),
       Tr("CONFIRM_OVERWRITE", {1}, 2, "send_newline", timeout),
       Tr("COPIED", {1, 2}, 3, "None", 20),
       Tr("PROMPT", {3}, -1, "None", 0),
       Tr("TIMEOUT", {0, 1, 2, 3}, -1, "error", 0),
       Tr("NO_SUCH_FILE", {0, 1, 2, 3}, -1, "error", 0),
       Tr("ERROR_COPYING", {0, 1, 2, 3}, -1, "error", 0) >>

\* _copy_files_from_sftp_to_device
SftpEvents == <<"PROMPT", "PASSWORD", "SFTP_CONFIRM_OVERWRITE", "SFTP_COPIED", "TIMEOUT",
                "SFTP_NO_SUCH_FILE", "DOWNLOAD_ABORTED">>

\* mutant: the overwrite question may be asked again in state 2
SftpTransitionsOverwriteAgain(timeout) ==
    << Tr("PASSWORD", {0}, 1, "send_password", timeout),
       Tr("SFTP_CONFIRM_OVERWRITE", {1, 2}, 2, "send_yes", timeout),
       Tr("SFTP_COPIED", {1, 2}, -1, "reinstall_logfile", 0),
       Tr("PROMPT", {1, 2}, -1, "reinstall_logfile", 0),
       Tr("TIMEOUT", {0, 1, 2}, -1, "error", 0),
       Tr("SFTP_NO_SUCH_FILE", {0, 1, 2}, -1, "error", 0),
       Tr("DOWNLOAD_ABORTED", {0, 1, 2}, -1, "error", 0) >>

\* mutant: "Download aborted." is taken for the end of the copy
SftpTransitionsAbortedAsCopied(timeout) ==
    << Tr("PASSWORD", {0}, 1, "send_password", timeout),
       Tr("SFTP_CONFIRM_OVERWRITE", {1}, 2, "send_yes", timeout),
       Tr("SFTP_COPIED", {1, 2}, -1, "reinstall_logfile", 0),
       Tr("PROMPT", {1, 2}, -1, "reinstall_logfile", 0),
       Tr("TIMEOUT", {0, 1, 2}, -1, "error", 0),
       Tr("SFTP_NO_SUCH_FILE", {0, 1, 2}, -1, "error", 0),
       Tr("DOWNLOAD_ABORTED", {0, 1, 2}, -1, "reinstall_logfile", 0) >>

SftpTransitions(timeout) ==
    << Tr("PASSWORD", {0}, 1, "send_password", timeout),
       Tr("SFTP_CONFIRM_OVERWRITE", {1}, 2, "send_yes", timeout),
       Tr("SFTP_COPIED", {1, 2}, -1, "reinstall_logfile", 0),
       Tr("PROMPT", {1, 2}, -1, "reinstall_logfile", 0),
       Tr("TIMEOUT", {0, 1, 2}, -1, "error", 0),
       Tr("SFTP_NO_SUCH_FILE", {0, 1, 2}, -1, "error", 0),
       Tr("DOWNLOAD_ABORTED", {0, 1, 2}, -1, "error", 0) >>

\* _upgrade_all_fpds
FpdEvents == <<"PROMPT", "CONFIRM_CONTINUE", "CONFIRM_SECOND_TIME", "UPGRADE_END", "TIMEOUT">>

\* mutant: a prompt in state 1 or 2 is taken for the end of the upgrade
FpdTransitionsPromptEnds ==
    << Tr("CONFIRM_CONTINUE", {0}, 1, "send_newline", TIMEOUT_FOR_FPD_UPGRADE),
       Tr("CONFIRM_SECOND_TIME", {1}, 2, "send_yes", TIMEOUT_FOR_FPD_UPGRADE),
       Tr("UPGRADE_END", {1, 2}, 3, "None", 120),
       Tr("PROMPT", {1, 2, 3}, -1, "None", 0),
       Tr("PROMPT", {1, 2}, -1, "error", 0),
       Tr("TIMEOUT", {0, 1, 2}, -1, "timeout", 0) >>

\* mutant: a timeout ends the upgrade automaton without an error
FpdTransitionsTimeoutEnds ==
    << Tr("CONFIRM_CONTINUE", {0}, 1, "send_newline", TIMEOUT_FOR_FPD_UPGRADE),
       Tr("CONFIRM_SECOND_TIME", {1}, 2, "send_yes", TIMEOUT_FOR_FPD_UPGRADE),
       Tr("UPGRADE_END", {1, 2}, 3, "None", 120),
       Tr("PROMPT", {3}, -1, "None", 0),
       Tr("PROMPT", {1, 2}, -1, "error", 0),
       Tr("TIMEOUT", {0, 1, 2}, -1, "None", 0) >>

FpdTransitions ==
    << Tr("CONFIRM_CONTINUE", {0}, 1, "send_newline", TIMEOUT_FOR_FPD_UPGRADE),
       Tr("CONFIRM_SECOND_TIME", {1}, 2, "send_yes", TIMEOUT_FOR_FPD_UPGRADE),
       Tr("UPGRADE_END", {1, 2}, 3, "None", 120),
       Tr("PROMPT", {3}, -1, "None", 0),
       Tr("PROMPT", {1, 2}, -1, "error", 0),
       Tr("TIMEOUT", {0, 1, 2}, -1, "timeout", 0) >>

\* The session as the callbacks see it: the transcript sink currently attached
\* (ctrl._session.logfile_read), ctx.message, and whether the sink was attached
\* at the moment the password was written to the device.
Session(lr, msg, pw) == [logfile_read |-> lr, message |-> msg, password_sent |-> pw]

Ret(r, sess) == [ret |-> r, sess |-> sess]

\* send_newline, send_yes (FPD), and a transition with no action
SendLine(fd, sess) == Ret(TRUE, sess)

\* error of the FTP/TFTP copy
FtpError(fd, sess) == Ret(FALSE, [sess EXCEPT !.message = "Error copying file."])

\* mutant: the password is sent and the sink is left attached
SendPasswordKeepsSink(fd, sess) ==
    Ret(TRUE, [sess EXCEPT !.password_sent = IF sess.logfile_read THEN "sink attached"
                                              ELSE "sink detached"])

\* send_password: sendline(server.password), then the sink is detached
SendPassword(fd, sess) ==
    Ret(TRUE, [sess EXCEPT !.password_sent = IF sess.logfile_read THEN "sink attached"
                                              ELSE "sink detached",
                           !.logfile_read = FALSE])

\* send_yes of the SFTP copy
SftpSendYes(fd, sess) == Ret(TRUE, [sess EXCEPT !.logfile_read = FALSE])

\* reinstall_logfile
ReinstallLogfile(fd, sess) ==
    IF fd /\ ~sess.logfile_read
    THEN Ret(TRUE, [sess EXCEPT !.logfile_read = TRUE])
    ELSE Ret(FALSE, [sess EXCEPT !.message = "Error reinstalling session.log."])

\* error of the SFTP copy
SftpError(fd, sess) ==
    Ret(FALSE, [sess EXCEPT !.logfile_read = IF fd /\ ~sess.logfile_read THEN TRUE ELSE @,
                            !.message = "Error copying file."])

\* error and timeout of the FPD upgrade
FpdError(fd, sess) == Ret(FALSE, [sess EXCEPT !.message = "Error upgrading FPD."])
FpdTimeout(fd, sess) == Ret(FALSE, [sess EXCEPT !.message = "Timeout upgrading FPD."])

\* the callback a transition names, in the function that declares the table
Callback(table, action, fd, sess) ==
    CASE action = "None" -> Ret(TRUE, sess)
      [] action = "send_newline" -> SendLine(fd, sess)
      [] action = "send_password" -> SendPassword(fd, sess)
      [] action = "send_yes" -> IF table = "sftp" THEN SftpSendYes(fd, sess) ELSE SendLine(fd, sess)
      [] action = "reinstall_logfile" -> ReinstallLogfile(fd, sess)
      [] action = "error" -> IF table = "sftp" THEN SftpError(fd, sess)
                             ELSE IF table = "ftp" THEN FtpError(fd, sess)
                             ELSE FpdError(fd, sess)
      [] action = "timeout" -> FpdTimeout(fd, sess)

Events(table) == CASE table = "ftp" -> FtpEvents [] table = "sftp" -> SftpEvents
                   [] table = "fpd" -> FpdEvents

Transitions(table, timeout) ==
    CASE table = "ftp" -> FtpTransitions(timeout) [] table = "sftp" -> SftpTransitions(timeout)
      [] table = "fpd" -> FpdTransitions

\* expect(events): the texts that end the wait, and the event each is reported as
\* (the first pattern of the list that matches)
Awaited(events) == {t \in AllTexts : \E i \in 1..Len(events) : Matches(events[i], t)}

Expect(events, text) ==
    events[CHOOSE i \in 1..Len(events) :
              /\ Matches(events[i], text)
              /\ \A j \in 1..(i - 1) : ~Matches(events[j], text)]

\* The transition that fires: the first of the list, in declaration order, for
\* the event and the current state; 0 when there is none.
FirstTransition(transitions, event, st) ==
    LET hits == {i \in 1..Len(transitions) :
                    transitions[i].event = event /\ st \in transitions[i].states}
    IN  IF hits = {} THEN 0 ELSE CHOOSE i \in hits : \A j \in hits : i <= j

\* One turn of run_fsm after a text arrived in state st: "failed" when no
\* transition applies or the action returns false, "ok" when the next state is
\* -1, "running" otherwise.
FsmStep(table, timeout, st, text, fd, sess) ==
    LET trs == Transitions(table, timeout)
        k == FirstTransition(trs, Expect(Events(table), text), st)
        r == Callback(table, trs[k].action, fd, sess)
    IN  IF k = 0 THEN [status |-> "failed", state |-> st, sess |-> sess]
        ELSE IF ~r.ret THEN [status |-> "failed", state |-> st, sess |-> r.sess]
        ELSE [status |-> IF trs[k].next = -1 THEN "ok" ELSE "running",
              state |-> trs[k].next, sess |-> r.sess]

\* ------------------------------------------------------------------------
\* Node-status check (the sub-step Plugin.run starts)
\* ------------------------------------------------------------------------

\* mutant: the first column is not tested
EndsInAnything(s) == Len(s) > 0

\* re.search('CPU\d+$', states[0])
EndsInCpu(s) ==
    \E i \in 1..(Len(s) - 3) : /\ SubSeq(s, i, i + 2) = <<"C", "P", "U">>
                               /\ \A k \in (i + 3)..Len(s) : IsDigit(s[k])

\* 'CPU' in key
HasCpu(s) == Contains(s, <<"C", "P", "U">>)

\* A line of "admin show platform" after strip() and re.split('\s\s+', line):
\* the sequence of its columns, the first one (the node) as characters.
Line4(node, type, st, cfg) == <<node, type, st, cfg>>
Line3(node, type, st) == <<node, type, st>>
HeaderLine == <<<<"N", "o", "d", "e">>, <<"T", "y", "p", "e">>, "State", "Config State">>

\* sample outputs of the command
ShowPlatformOutputs ==
    { <<HeaderLine, Line4(RSP0, TypeRSP4, "IOS XR RUN", "PWR,NSHUT,MON"),
        Line3(FT0, TypeFAN, "READY"),
        Line4(LC1, Type8X1, "IOS XR RUN", "PWR,NSHUT,MON")>>,
      <<HeaderLine, Line4(RSP0, TypeRSP4, "IOS XR RUN", "PWR,NSHUT,MON"),
        Line4(LC1, Type8X1, "IN-RESET", "PWR,NSHUT,MON")>>,
      <<HeaderLine, Line4(RSP0, TypeRSP4, "IOS XR RUN", "PWR,NSHUT,MON"),
        Line3(LC1, Type8X1, "IOS XR RUN")>> }

\* the number of columns the unpacking of a line expects; 0: unsupported family
Columns(family) == IF family = "ASR9K" THEN 4 ELSE IF family = "CRS" THEN 5 ELSE 0

\* mutant: a line with the wrong number of columns is unpacked from the left,
\* a missing column read as empty
ParseShowPlatformUnchecked(family, output) ==
    LET kept == {i \in 1..Len(output) : /\ Len(output[i][1]) > 0
                                        /\ IsDigit(output[i][1][1])
                                        /\ EndsInCpu(output[i][1])}
        n == Columns(family)
        last(node) == CHOOSE i \in kept : /\ output[i][1] = node
                                          /\ \A j \in kept : output[j][1] = node => j <= i
        col(line, k) == IF k <= Len(line) THEN line[k] ELSE ""
    IN  IF kept = {} THEN [kind |-> "inventory", inv |-> <<>>]
        ELSE IF n = 0 THEN [kind |-> "None", inv |-> <<>>]
        ELSE [kind |-> "inventory",
              inv |-> [node \in {output[i][1] : i \in kept} |->
                          [type |-> col(output[last(node)], 2),
                           state |-> col(output[last(node)], n - 1),
                           config_state |-> col(output[last(node)], n)]]]

\* _parse_show_platform: the inventory, None (unsupported platform, met on the
\* first CPU line) or the ValueError of an unpacking with the wrong column count
ParseShowPlatform(family, output) ==
    LET kept == {i \in 1..Len(output) : /\ Len(output[i][1]) > 0
                                        /\ IsDigit(output[i][1][1])
                                        /\ EndsInCpu(output[i][1])}
        n == Columns(family)
        last(node) == CHOOSE i \in kept : /\ output[i][1] = node
                                          /\ \A j \in kept : output[j][1] = node => j <= i
    IN  IF kept = {} THEN [kind |-> "inventory", inv |-> <<>>]
        ELSE IF n = 0 THEN [kind |-> "None", inv |-> <<>>]
        ELSE IF \E i \in kept : Len(output[i]) # n THEN [kind |-> "ValueError", inv |-> <<>>]
        ELSE [kind |-> "inventory",
              inv |-> [node \in {output[i][1] : i \in kept} |->
                          [type |-> output[last(node)][2],
                           state |-> output[last(node)][n - 1],
                           config_state |-> output[last(node)][n]]]]

\* valid_state of the node-status run
NodeStatusValidState == {"IOS XR RUN", "PRESENT", "READY", "FAILED", "OK", "DISABLED",
                         "UNPOWERED", "ADMIN DOWN", "NOT ALLOW ONLIN"}

\* mutant: one CPU node in a valid state is enough
SomeNodeValid(inv) ==
    \E key \in DOMAIN inv : HasCpu(key) /\ inv[key].state \in NodeStatusValidState

\* the for/else of the node-status run: TRUE when no CPU node breaks the loop
AllNodesValid(inv) ==
    \A key \in DOMAIN inv : HasCpu(key) => inv[key].state \in NodeStatusValidState

\* ------------------------------------------------------------------------
\* Plugin.run of the Pre-Migrate plugin
\* ------------------------------------------------------------------------

VARIABLES
    pc,               \* where Plugin.run stands
    session_fd,       \* ctx._connection._session_fd: TRUE when a session.log is open
    sess,             \* the session the callbacks act on (see Session)
    state,            \* the current state of the automaton that is running
    inventory,        \* the stored data "inventory"
    server_type,      \* server.server_type
    supported_hw,     \* supported_hw[exr_version]
    iosxr_run_nodes,  \* the result of _get_supported_iosxr_run_nodes
    version,          \* the release of the device as Plugin.run extracted it
    config_filename,  \* the config_filename of _handle_configs ("" outside of it)
    files,            \* dest_files of the copy that is running
    x,                \* its loop index, from 1
    phase,            \* "checks", "configs", "image" or "fpd"
    need,             \* subtype_to_locations_need_upgrade
    order,            \* the subtypes _upgrade_all_fpds has still to visit
    hist,             \* what happened so far (read by the properties only)
    poll              \* the locals of wait_for_final_band (see PollIdle)

vars == <<pc, session_fd, sess, state, inventory, server_type, supported_hw,
          iosxr_run_nodes, version, config_filename, files, x, phase, need, order, hist,
          poll>>

\* ctx.error: reports the message and raises PluginError
Error(h, msg) == [h EXCEPT !.errors = @ + 1, !.abort = msg]

\* a step's failure as the device or the environment presented it
Failed(h, bad, what) == IF bad THEN [h EXCEPT !.failed = @ \cup {what}] ELSE h

Sent(h, cmd) == [h EXCEPT !.sent = @ \cup {cmd}]

\* nothing has happened yet
NoHistory ==
    [sent |-> {}, failed |-> {}, errors |-> 0, abort |-> "",
     fsm |-> "", seen |-> <<>>, sink_cmd |-> FALSE, dir |-> "",
     confirmed |-> 0, unconfirmed |-> 0, gate |-> "", family |-> "", parse |-> "",
     output |-> <<>>, report |-> <<>>, logs |-> FALSE, warned |-> {},
     override |-> FALSE,
     run |-> [oserror |-> FALSE, nox_error |-> FALSE, match |-> FALSE, total |-> 1,
              known |-> 1, unsupported |-> 0, writable |-> FALSE]]

\* wait_for_final_band before it is called: where it stands, its locals
\* time_waited, supported_nodes and output, its return value ("": none yet),
\* and, for the properties, the seconds slept and elapsed, the samples taken
\* and the nodes of the device that are supported for the release
PollIdle ==
    [pc |-> "idle", time_waited |-> 0, supported_nodes |-> {}, output |-> <<>>, result |-> "",
     slept |-> 0, elapsed |-> 0, samples |-> 0, expected |-> {}]

Init ==
    /\ pc = "start"
    /\ poll = PollIdle
    /\ session_fd \in BOOLEAN
    /\ sess = Session(session_fd, "", "not sent")
    /\ state = 0
    /\ inventory \in StoredInventories
    /\ server_type = "None"
    /\ supported_hw = HwEmpty
    /\ iosxr_run_nodes = {}
    /\ version = <<>>
    /\ config_filename = ""
    /\ files = <<>>
    /\ x = 0
    /\ phase = "checks"
    /\ need = <<>>
    /\ order = <<>>
    /\ hist = NoHistory

\* lines 896-950: the context attributes, the image name, the table entry of
\* the target release, the server type.  The message of the first failing test.
PreflightError(repo, packages, server, override, hw_entry) ==
    IF ~repo THEN "No repository provided."
    ELSE IF packages = "ABSENT" THEN "No package list provided"
    ELSE IF server \in {"ABSENT", "None"} THEN "No server repository selected"
    ELSE IF ~override THEN "No indication for whether to override hardware requirement or not."
    ELSE IF packages = "no tar" THEN "No ASR9K IOS XR 64 Bit tar file found in packages."
    ELSE IF packages = "tar without release" THEN "The selected tar file is missing release number in its filename."
    ELSE IF ~hw_entry THEN "Missing hardware support information available for release."
    ELSE IF server \notin {"FTP", "TFTP", "SFTP"} THEN "Pre-Migrate does not support server repository."
    ELSE ""

Preflight ==
    /\ pc = "start"
    /\ \E repo \in BOOLEAN, override \in BOOLEAN, hw_entry \in BOOLEAN,
          packages \in {"ABSENT", "no tar", "tar without release", "tar"},
          server \in {"ABSENT", "None", "LOCAL", "FTP", "TFTP", "SFTP"},
          hw \in {HwFull, HwNoLC, HwEmpty} :
        LET msg == PreflightError(repo, packages, server, override, hw_entry)
            h == Failed(hist, ~hw_entry, "hardware support entry")
        IN  IF msg # ""
            THEN /\ pc' = "aborted"
                 /\ hist' = Error(h, msg)
                 /\ UNCHANGED <<server_type, supported_hw>>
            ELSE /\ pc' = "gate"
                 /\ hist' = h
                 /\ server_type' = server
                 /\ supported_hw' = hw
    /\ UNCHANGED <<poll, session_fd, sess, state, inventory, iosxr_run_nodes, version,
                   config_filename, files, x, phase, need, order>>

\* mutant: the gate runs whether the override is set or not
GateDespiteOverride ==
    /\ pc = "gate"
    /\ \E override_hw_req \in BOOLEAN :
        LET ran == HwTruthy(supported_hw)
            violations == IF ran THEN GateViolations(inventory, supported_hw) ELSE {}
            h == Failed([hist EXCEPT !.gate = IF ran THEN "ran" ELSE "skipped",
                                     !.override = override_hw_req],
                        violations # {}, "hardware gate")
        IN  IF violations # {}
            THEN /\ pc' = "aborted"
                 /\ \E v \in violations : hist' = Error(h, v)
            ELSE /\ pc' = "nodes"
                 /\ hist' = h
    /\ UNCHANGED <<poll, session_fd, sess, state, inventory, server_type, supported_hw,
                   iosxr_run_nodes, version, config_filename, files, x, phase, need, order>>

\* lines 954-956: the gate, unless the table entry is empty or the override is
\* set (hist.override: the value of override_hw_req, kept until line 958)
Gate ==
    /\ pc = "gate"
    /\ \E override_hw_req \in BOOLEAN :
        LET ran == HwTruthy(supported_hw) /\ ~override_hw_req
            violations == IF ran THEN GateViolations(inventory, supported_hw) ELSE {}
            h == Failed([hist EXCEPT !.gate = IF ran THEN "ran" ELSE "skipped",
                                     !.override = override_hw_req],
                        violations # {}, "hardware gate")
        IN  IF violations # {}
            THEN /\ pc' = "aborted"
                 /\ \E v \in violations : hist' = Error(h, v)
            ELSE /\ pc' = "nodes"
                 /\ hist' = h
    /\ UNCHANGED <<poll, session_fd, sess, state, inventory, server_type, supported_hw,
                   iosxr_run_nodes, version, config_filename, files, x, phase, need, order>>

\* lines 958-961
GetNodes ==
    /\ pc = "nodes"
    /\ LET listed == supported_hw.RP # <<>> /\ supported_hw.LC # <<>>
           nodes == IF listed THEN SupportedIosxrRunNodes(inventory, supported_hw) ELSE {}
           h == Failed([hist EXCEPT !.gate = "", !.override = FALSE],
                       nodes = {}, "supported nodes")
       IN  IF ~listed
           THEN /\ pc' = "aborted"
                /\ hist' = Error(h, "The supported hardware list is missing information on RP and/or LC.")
                /\ UNCHANGED iosxr_run_nodes
           ELSE IF nodes = {}
           THEN /\ pc' = "aborted"
                /\ hist' = Error(h, "No RSP/RP or Linecard on the device is supported for migration to ASR9K-X64.")
                /\ UNCHANGED iosxr_run_nodes
           ELSE /\ pc' = "version"
                /\ hist' = h
                /\ iosxr_run_nodes' = nodes
    /\ UNCHANGED <<poll, session_fd, sess, state, inventory, server_type, supported_hw,
                   version, config_filename, files, x, phase, need, order>>

\* ctx.os_version values the device may report, as (major, minor, patch)
OsVersions == {<<4, 3, 3>>, <<5, 3, 1>>, <<5, 3, 3>>, <<5, 10, 0>>, <<6, 1, 1>>, <<10, 1, 1>>}

\* the string "major.minor.patch"
VersionString(t) == Dec(t[1]) \o <<".">> \o Dec(t[2]) \o <<".">> \o Dec(t[3])

\* mutant: the comparison is written the other way round
BelowMinimumReversed(v) == StrLess(MINIMUM_RELEASE_VERSION_FOR_MIGRATION, v)

\* line 973: version < MINIMUM_RELEASE_VERSION_FOR_MIGRATION
BelowMinimum(v) == StrLess(v, MINIMUM_RELEASE_VERSION_FOR_MIGRATION)

\* line 601: version < RELEASE_VERSION_DOES_NOT_NEED_FPD_SMU
NeedsFpdSmu(v) == StrLess(v, RELEASE_VERSION_DOES_NOT_NEED_FPD_SMU)

\* (a1, a2, a3) below (b1, b2, b3), component by component, as numbers
NumLess(a, b) ==
    \/ a[1] < b[1]
    \/ a[1] = b[1] /\ a[2] < b[2]
    \/ a[1] = b[1] /\ a[2] = b[2] /\ a[3] < b[3]

\* lines 963-975
VersionCheck ==
    /\ pc = "version"
    /\ \E os_type \in {"XR", "eXR"}, os_version \in OsVersions :
        LET v == MatchVersion(VersionString(os_version))
            h == Failed(Failed(hist, os_type # "XR", "os type"),
                        NumLess(os_version, <<5, 3, 3>>), "minimum release")
            msg == IF os_type # "XR" THEN "Device is not running ASR9K Classic XR. Migration action aborted."
                   ELSE IF v = <<>> THEN "Bad os_version."
                   ELSE IF BelowMinimum(v) THEN "The minimal release version required for migration is 5.3.3."
                   ELSE ""
        IN  IF msg # ""
            THEN /\ pc' = "aborted"
                 /\ hist' = Error(h, msg)
                 /\ UNCHANGED version
            ELSE /\ pc' = "node_status"
                 /\ hist' = h
                 /\ version' = v
    /\ UNCHANGED <<poll, session_fd, sess, state, inventory, server_type, supported_hw,
                   iosxr_run_nodes, config_filename, files, x, phase, need, order>>

\* mutant: the gate is run after the node-status sub-step stored its inventory
NodeStatusThenGate ==
    /\ pc = "node_status"
    /\ \E output \in ShowPlatformOutputs :
        LET r == ParseShowPlatform("ASR9K", output)
            good == r.kind = "inventory" /\ AllNodesValid(r.inv)
        IN  IF good
            THEN pc' = "gate" /\ inventory' = r.inv /\ hist' = hist
            ELSE pc' = "crashed" /\ hist' = Failed(hist, TRUE, "node status") /\ UNCHANGED inventory
    /\ UNCHANGED <<poll, session_fd, sess, state, server_type, supported_hw, iosxr_run_nodes,
                   version, config_filename, files, x, phase, need, order>>

\* lines 976-981 and the run of the node-status plugin: a PluginError of the
\* sub-step is caught and reported again; any other exception is not caught
NodeStatus ==
    /\ pc = "node_status"
    /\ \E output \in ShowPlatformOutputs :
        LET r == ParseShowPlatform("ASR9K", output)
            good == r.kind = "inventory" /\ AllNodesValid(r.inv)
            h == Failed(hist, ~good, "node status")
        IN  IF r.kind # "inventory"
            THEN /\ pc' = "crashed"
                 /\ hist' = h
                 /\ UNCHANGED inventory
            ELSE IF ~AllNodesValid(r.inv)
            THEN /\ pc' = "aborted"
                 /\ hist' = Error(Error(h, "Not all nodes in correct state. Upgrade can not proceed"),
                                  "Not all nodes are in valid states. Pre-Migrate aborted.")
                 /\ UNCHANGED inventory
            ELSE /\ pc' = "ping"
                 /\ hist' = h
                 /\ inventory' = r.inv
    /\ UNCHANGED <<poll, session_fd, sess, state, server_type, supported_hw, iosxr_run_nodes,
                   version, config_filename, files, x, phase, need, order>>

\* _ping_repository_check
Ping ==
    /\ pc = "ping"
    /\ \E repo_ip \in BOOLEAN, replies \in BOOLEAN :
        LET h == Failed(hist, ~(repo_ip /\ replies), "ping")
        IN  IF ~repo_ip
            THEN pc' = "aborted" /\ hist' = Error(h, "Bad hostname for server repository.")
            ELSE IF ~replies
            THEN pc' = "aborted" /\ hist' = Error(h, "Failed to ping server repository on device.")
            ELSE pc' = "resize" /\ hist' = h
    /\ UNCHANGED <<poll, session_fd, sess, state, inventory, server_type, supported_hw,
                   iosxr_run_nodes, version, config_filename, files, x, phase, need, order>>

\* the size "show media" may print for /harddiskb: ("0.9", "1.9"); <<>>: no such line
MediaSizes == {<<>>, <<"0", ".", "9">>, <<"1", ".", "9">>}

\* _resize_eusb: the script is run on the device whatever it answers
ResizeEusb ==
    /\ pc = "resize"
    /\ \E completed \in BOOLEAN, eusb_size \in MediaSizes :
        LET small == eusb_size # <<>> /\ StrLess(eusb_size, <<"1", ".", "0">>)
            h == Failed(Sent(hist, "resize_eusb"), ~completed \/ eusb_size = <<>> \/ small,
                        "resize")
        IN  IF ~completed
            THEN pc' = "aborted" /\ hist' = Error(h, "eUSB partition failed. Please check session.log.")
            ELSE IF eusb_size = <<>>
            THEN pc' = "aborted" /\ hist' = Error(h, "Unexpected output from CLI 'show media'.")
            ELSE IF small
            THEN pc' = "aborted" /\ hist' = Error(h, "/harddiskb:/ is smaller than 1 GB after running /pkg/bin/resize_eusb.")
            ELSE pc' = "configs" /\ hist' = h
    /\ UNCHANGED <<poll, session_fd, sess, state, inventory, server_type, supported_hw,
                   iosxr_run_nodes, version, config_filename, files, x, phase, need, order>>

\* lines 992-997 and the two _save_config_to_csm_data of _handle_configs.  A
\* context without pre_migrate_config_filename leaves the local unbound, and
\* reading it at line 997 is an exception Plugin.run does not catch.
SaveConfigs ==
    /\ pc = "configs"
    /\ \E nox \in BOOLEAN, shown \in BOOLEAN, attr \in {"ABSENT", "", "custom.cfg"} :
        LET h == Failed(hist, ~nox \/ ~shown \/ attr = "ABSENT", "configuration")
        IN  IF ~nox
            THEN /\ pc' = "aborted"
                 /\ hist' = Error(h, "The configuration conversion tool is missing.")
                 /\ UNCHANGED <<config_filename, phase>>
            ELSE IF attr = "ABSENT"
            THEN /\ pc' = "crashed"
                 /\ hist' = h
                 /\ UNCHANGED <<config_filename, phase>>
            ELSE IF ~shown
            THEN /\ pc' = "aborted"
                 /\ hist' = Error(h, "CLI timed out after 1 hour.")
                 /\ UNCHANGED <<config_filename, phase>>
            ELSE /\ pc' = "convert_admin"
                 /\ hist' = h
                 /\ config_filename' = attr
                 /\ phase' = "configs"
    /\ UNCHANGED <<poll, session_fd, sess, state, inventory, server_type, supported_hw,
                   iosxr_run_nodes, version, files, x, need, order>>

\* What a run of the conversion tool gives: an OSError, text on stderr, and the
\* banner on stdout with its Total, Known and Unsupported counts (match: the
\* banner is there); whether the two diagnostic files can be written.
NoxRuns ==
    [oserror : BOOLEAN, nox_error : BOOLEAN, match : BOOLEAN, total : 1..2, known : 1..2,
     unsupported : 0..1, writable : BOOLEAN]

\* _all_configs_supported
AllConfigsSupported(run) == ~(run.match /\ run.unsupported # 0)

\* mutant: unequal Total and Known counts are an error only when the banner
\* counts unsupported configurations
RunMigrationOnConfigByUnsupported(run) ==
    LET conversion_success == run.match /\ (run.total = run.known \/ run.unsupported = 0)
        logs(msg) == IF run.writable THEN [msg |-> msg, logs |-> TRUE]
                     ELSE [msg |-> "Error writing diagnostic files.", logs |-> FALSE]
    IN  IF run.oserror
        THEN [msg |-> "Failed to run the configuration migration tool - OSError.", logs |-> FALSE]
        ELSE IF run.nox_error
        THEN [msg |-> "Failed to run the configuration migration tool.", logs |-> FALSE]
        ELSE IF conversion_success
        THEN IF AllConfigsSupported(run) THEN [msg |-> "", logs |-> FALSE] ELSE logs("")
        ELSE logs("Unknown configurations found.")

\* _run_migration_on_config: the message of the error raised ("": none), and
\* whether _create_config_logs wrote the two files before
RunMigrationOnConfig(run) ==
    LET conversion_success == run.match /\ run.total = run.known
        logs(msg) == IF run.writable THEN [msg |-> msg, logs |-> TRUE]
                     ELSE [msg |-> "Error writing diagnostic files.", logs |-> FALSE]
    IN  IF run.oserror
        THEN [msg |-> "Failed to run the configuration migration tool - OSError.", logs |-> FALSE]
        ELSE IF run.nox_error
        THEN [msg |-> "Failed to run the configuration migration tool.", logs |-> FALSE]
        ELSE IF conversion_success
        THEN IF AllConfigsSupported(run) THEN [msg |-> "", logs |-> FALSE] ELSE logs("")
        ELSE logs("Unknown configurations found.")

Convert(next) ==
    \E run \in NoxRuns :
        LET r == RunMigrationOnConfig(run)
            h == Failed([hist EXCEPT !.run = run, !.logs = r.logs], r.msg # "", "conversion")
        IN  IF r.msg # ""
            THEN pc' = "aborted" /\ hist' = Error(h, r.msg)
            ELSE pc' = next /\ hist' = h

\* line 832: the admin configuration
ConvertAdmin ==
    /\ pc = "convert_admin"
    /\ Convert(IF config_filename = "" THEN "convert_xr" ELSE "upload")
    /\ UNCHANGED <<poll, session_fd, sess, state, inventory, server_type, supported_hw,
                   iosxr_run_nodes, version, config_filename, files, x, phase, need, order>>

\* line 841: the XR configuration, when no custom one was selected
ConvertXr ==
    /\ pc = "convert_xr"
    /\ Convert("upload")
    /\ UNCHANGED <<poll, session_fd, sess, state, inventory, server_type, supported_hw,
                   iosxr_run_nodes, version, config_filename, files, x, phase, need, order>>

\* lines 835-869: the files to stage, their upload to the repository, and the
\* call of _copy_files_to_device
ConfigNamesOnDevice(custom, admin_iox) ==
    <<"harddiskb:/admin_calvados.cfg">>
    \o (IF custom = "" THEN <<"harddiskb:/iosxr.cfg">> ELSE <<>>)
    \o (IF admin_iox THEN <<"harddiskb:/admin_iosxr.cfg">> ELSE <<>>)
    \o (IF custom # "" THEN <<"harddiskb:/iosxr.cfg">> ELSE <<>>)

Upload ==
    /\ pc = "upload"
    /\ \E admin_iox \in BOOLEAN, uploaded \in BOOLEAN :
        LET h == Failed([hist EXCEPT !.run = NoHistory.run, !.logs = FALSE], ~uploaded, "upload")
        IN  IF ~uploaded
            THEN /\ pc' = "aborted"
                 /\ hist' = Error(h, "Exception was thrown while copying file.")
                 /\ UNCHANGED <<files, x>>
            ELSE /\ pc' = "copy_cmd"
                 /\ hist' = h
                 /\ files' = ConfigNamesOnDevice(config_filename, admin_iox)
                 /\ x' = 1
    /\ UNCHANGED <<poll, session_fd, sess, state, inventory, server_type, supported_hw,
                   iosxr_run_nodes, version, config_filename, phase, need, order>>

\* ------------------------------------------------------------------------
\* Copying files to the device
\* ------------------------------------------------------------------------

\* _copy_files_to_device: the table of the server type
CopyTable == IF server_type = "SFTP" THEN "sftp" ELSE "ftp"

\* the timeout Plugin.run and _handle_configs pass to the copy
CopyTimeout == IF phase = "configs" THEN TIMEOUT_FOR_COPY_CONFIG ELSE TIMEOUT_FOR_COPY_IMAGE

\* a new automaton run: state 0, a fresh ctx
Started(h) == [h EXCEPT !.fsm = "running", !.seen = <<>>]

\* the copy or sftp command for files[x] is sent, run_fsm starts
CopyCommand ==
    /\ pc = "copy_cmd"
    /\ pc' = "copy_fsm"
    /\ state' = 0
    /\ sess' = Session(sess.logfile_read, "", "not sent")
    /\ hist' = [Started(Sent(hist, IF CopyTable = "sftp" THEN "sftp" ELSE "copy"))
                   EXCEPT !.sink_cmd = sess.logfile_read, !.dir = ""]
    /\ UNCHANGED <<poll, session_fd, inventory, server_type, supported_hw, iosxr_run_nodes,
                   version, config_filename, files, x, phase, need, order>>

\* lines 438-439: the sink is attached again after a successful SFTP run
Reattach(table, fd, s) ==
    IF table = "sftp" /\ fd /\ ~s.logfile_read THEN [s EXCEPT !.logfile_read = TRUE] ELSE s

\* mutant: after a failed run the command of the same file is sent again
CopyEventRetries ==
    /\ pc = "copy_fsm"
    /\ \E text \in Awaited(Events(CopyTable)) :
        LET r == FsmStep(CopyTable, CopyTimeout, state, text, session_fd, sess)
            h == [hist EXCEPT !.seen = Append(@, text), !.fsm = r.status]
        IN  /\ state' = r.state
            /\ sess' = r.sess
            /\ hist' = h
            /\ pc' = CASE r.status = "running" -> pc
                       [] r.status = "failed" -> "copy_cmd"
                       [] r.status = "ok" -> "copy_dir"
    /\ UNCHANGED <<poll, session_fd, inventory, server_type, supported_hw, iosxr_run_nodes,
                   version, config_filename, files, x, phase, need, order>>

\* a text arrives while run_fsm waits; when the run ends, lines 346-349 and
\* 433-439: a failed run is a ctx.error
CopyEvent ==
    /\ pc = "copy_fsm"
    /\ \E text \in Awaited(Events(CopyTable)) :
        LET r == FsmStep(CopyTable, CopyTimeout, state, text, session_fd, sess)
            h == [hist EXCEPT !.seen = Append(@, text), !.fsm = r.status]
        IN  /\ state' = r.state
            /\ CASE r.status = "running" ->
                      /\ pc' = pc
                      /\ sess' = r.sess
                      /\ hist' = h
                 [] r.status = "failed" ->
                      /\ pc' = "aborted"
                      /\ sess' = r.sess
                      /\ hist' = Error(Failed(h, TRUE, "copy"), "Error copying file to device")
                 [] r.status = "ok" ->
                      /\ pc' = "copy_dir"
                      /\ sess' = Reattach(CopyTable, session_fd, r.sess)
                      /\ hist' = h
    /\ UNCHANGED <<poll, session_fd, inventory, server_type, supported_hw, iosxr_run_nodes,
                   version, config_filename, files, x, phase, need, order>>

\* what "dir <dest>" may print, as the markers the output contains
DirOutputs == {{"-rw- 1024 f"}, {"No such file"}}

\* mutant: the listing is searched for another marker
NoSuchFileWrongMarker(output) == "No such file or directory." \in output

\* lines 352 and 441: "No such file" in output
NoSuchFile(output) == "No such file" \in output

\* lines 351-355 and 440-444, the end of the loop, and for the configuration
\* files lines 999-1001: the copy of the image starts
DirCheck ==
    /\ pc = "copy_dir"
    /\ \E output \in DirOutputs :
        LET listed == "No such file" \notin output
            h == Failed([hist EXCEPT !.dir = IF listed THEN "listed" ELSE "No such file"],
                        ~listed, "copy")
            next == [h EXCEPT !.fsm = "", !.seen = <<>>]
        IN  IF NoSuchFile(output)
            THEN /\ pc' = "aborted"
                 /\ hist' = Error(h, "Failed to copy file to device")
                 /\ UNCHANGED <<files, x, phase, config_filename>>
            ELSE /\ hist' = next
                 /\ IF x < Len(files)
                    THEN pc' = "copy_cmd" /\ x' = x + 1 /\ UNCHANGED <<files, phase, config_filename>>
                    ELSE IF phase = "configs"
                    THEN /\ pc' = "copy_cmd"
                         /\ files' = <<"harddiskb:/asr9k-mini-x64-6.1.1.tar">>
                         /\ x' = 1
                         /\ phase' = "image"
                         /\ config_filename' = ""
                    ELSE pc' = "fpd" /\ phase' = "fpd" /\ UNCHANGED <<files, x, config_filename>>
    /\ UNCHANGED <<poll, session_fd, sess, state, inventory, server_type, supported_hw,
                   iosxr_run_nodes, version, need, order>>

\* ------------------------------------------------------------------------
\* FPD upgrade
\* ------------------------------------------------------------------------

\* the names of FPD subtypes, as characters
FpdChars ==
    [cbc |-> <<"c", "b", "c">>, rommon |-> <<"r", "o", "m", "m", "o", "n">>,
     fpga2 |-> <<"f", "p", "g", "a", "2">>, fsbl |-> <<"f", "s", "b", "l">>,
     lnxfw |-> <<"l", "n", "x", "f", "w">>, fpga8 |-> <<"f", "p", "g", "a", "8">>,
     fclnxfw |-> <<"f", "c", "l", "n", "x", "f", "w">>,
     fcfsbl |-> <<"f", "c", "f", "s", "b", "l">>]

IsPrefix(p, s) == Len(p) <= Len(s) /\ SubSeq(s, 1, Len(p)) = p

\* the rows "show hw-module fpd location all" prints and the tables of at most
\* MaxFpdRows rows
MaxFpdRows == 2

FpdRows == [location : {RSP0, LC1}, subtype : {"fpga2", "cbc"}, upgrade : {"Yes", "No"}]

FpdTables == UNION {[1..n -> FpdRows] : n \in 0..MaxFpdRows}

\* the finditer of _check_fpd for one fpdtype: the rows whose text between the
\* node and the flag holds the name of the subtype
FpdMatches(fpdtable, fpdtype) ==
    LET hit(row) == Contains(FpdChars[row.subtype], FpdChars[fpdtype])
    IN  SelectSeq(fpdtable, hit)

\* mutant: the location of a row is not tested against the eligible nodes
CheckFpdAnyLocation(fpdtable, nodes) ==
    LET locations(fpdtype) ==
            LET wanted(row) == row.upgrade = "No"
                rows == SelectSeq(FpdMatches(fpdtable, fpdtype), wanted)
            IN  [i \in 1..Len(rows) |-> rows[i].location]
    IN  [fpdtype \in {t \in FPDS_CHECK_FOR_UPGRADE : locations(t) # <<>>} |-> locations(fpdtype)]

\* _check_fpd: subtype -> the list of locations that need the upgrade
CheckFpd(fpdtable, nodes) ==
    LET locations(fpdtype) ==
            LET wanted(row) == row.location \in nodes /\ row.upgrade = "No"
                rows == SelectSeq(FpdMatches(fpdtable, fpdtype), wanted)
            IN  [i \in 1..Len(rows) |-> rows[i].location]
    IN  [fpdtype \in {t \in FPDS_CHECK_FOR_UPGRADE : locations(t) # <<>>} |-> locations(fpdtype)]

\* mutant: the loop comes back to a key it has visited
OrdersRepeating(S) == {o \in [1..(Cardinality(S) + 1) -> S] : \A k \in S : \E i \in DOMAIN o : o[i] = k}

\* the orders in which a for loop may visit the keys of a dict
Orders(S) == {o \in [1..Cardinality(S) -> S] : \A i, j \in DOMAIN o : i # j => o[i] # o[j]}

\* lines 593-624 of _ensure_updated_fpd: the FPD package, the FPD SMU and its
\* install add, activate and commit by the three sub-plugins
EnsureFpdPackage ==
    /\ pc = "fpd"
    /\ \E active \in BOOLEAN, pies \in 0..2, smu_active \in BOOLEAN,
          install \in {"done", "PluginError", "AttributeError"} :
        LET smu == NeedsFpdSmu(version)
            installs == smu /\ pies = 1 /\ ~smu_active /\ active
            bad == ~active \/ (smu /\ pies # 1) \/ (installs /\ install # "done")
            h == Failed(IF installs THEN Sent(hist, "install") ELSE hist, bad, "fpd package")
        IN  IF ~active
            THEN pc' = "aborted" /\ hist' = Error(h, "No FPD package is active on device.")
            ELSE IF smu /\ pies # 1
            THEN pc' = "aborted" /\ hist' = Error(h, "Please select exactly one FPD SMU pie.")
            ELSE IF installs /\ install = "PluginError"
            THEN pc' = "aborted" /\ hist' = Error(Error(h, "install failed"), "Failed to install the FPD SMU")
            ELSE IF installs /\ install = "AttributeError"
            THEN pc' = "aborted" /\ hist' = Error(h, "Failed to install the FPD SMU.")
            ELSE pc' = "fpd_check" /\ hist' = h
    /\ UNCHANGED <<poll, session_fd, sess, state, inventory, server_type, supported_hw,
                   iosxr_run_nodes, version, config_filename, files, x, phase, need, order>>

\* lines 626-636: the need mapping; Plugin.run returns True when it is empty
CheckFpdVersions ==
    /\ pc = "fpd_check"
    /\ \E fpdtable \in FpdTables :
        LET n == CheckFpd(fpdtable, iosxr_run_nodes)
        IN  /\ need' = n
            /\ IF DOMAIN n = {}
               THEN pc' = "done" /\ order' = <<>>
               ELSE pc' = "fpd_cmd" /\ order' \in Orders(DOMAIN n)
    /\ UNCHANGED <<poll, session_fd, sess, state, inventory, server_type, supported_hw,
                   iosxr_run_nodes, version, config_filename, files, x, phase, hist>>

\* the upgrade command for the next subtype is sent, run_fsm starts
FpdCommand ==
    /\ pc = "fpd_cmd"
    /\ pc' = "fpd_fsm"
    /\ state' = 0
    /\ sess' = Session(sess.logfile_read, "", "not sent")
    /\ hist' = Started(Sent(hist, "fpd_upgrade"))
    /\ UNCHANGED <<poll, session_fd, inventory, server_type, supported_hw, iosxr_run_nodes,
                   version, config_filename, files, x, phase, need, order>>

\* a text arrives while run_fsm waits; lines 692-695 when the run ends
FpdEvent ==
    /\ pc = "fpd_fsm"
    /\ \E text \in Awaited(FpdEvents) :
        LET r == FsmStep("fpd", 0, state, text, session_fd, sess)
            h == [hist EXCEPT !.seen = Append(@, text), !.fsm = r.status]
        IN  /\ state' = r.state
            /\ sess' = r.sess
            /\ CASE r.status = "running" -> pc' = pc /\ hist' = h
                 [] r.status = "failed" ->
                      /\ pc' = "aborted"
                      /\ hist' = Error(Failed(h, TRUE, "fpd upgrade"), "Error while upgrading FPD subtype")
                 [] r.status = "ok" -> pc' = "fpd_log" /\ hist' = h
    /\ UNCHANGED <<poll, session_fd, inventory, server_type, supported_hw, iosxr_run_nodes,
                   version, config_filename, files, x, phase, need, order>>

\* the lines "show log | include fpd" may print after the upgrade of fpdtype:
\* "Successfully upgrade <subtype> ... location <location>"
FpdLogs(fpdtype) == SUBSET [subtype : {fpdtype, "rommon"}, location : {RSP0, LC1}]

\* mutant: the pattern leaves out the location
LogConfirmsAnyLocation(fpd_log, fpdtype, location) ==
    \E line \in fpd_log : IsPrefix(FpdChars[fpdtype], FpdChars[line.subtype])

\* re.search(pattern, fpd_log) of line 702
LogConfirms(fpd_log, fpdtype, location) ==
    \E line \in fpd_log : /\ IsPrefix(FpdChars[fpdtype], FpdChars[line.subtype])
                          /\ IsPrefix(location, line.location)

\* mutant: the loop over the locations stops after the first one
UnconfirmedFirstOnly(fpd_log, fpdtype, locations) ==
    {i \in 1..Len(locations) : i = 1 /\ ~LogConfirms(fpd_log, fpdtype, locations[i])}

\* the locations of the list for which the loop of lines 699-706 raises
Unconfirmed(fpd_log, fpdtype, locations) ==
    {i \in 1..Len(locations) : ~LogConfirms(fpd_log, fpdtype, locations[i])}

\* lines 697-707: the log is fetched and searched for every location of the
\* subtype; then the next subtype, or the return of True
FpdLog ==
    /\ pc = "fpd_log"
    /\ \E fpd_log \in FpdLogs(order[1]) :
        LET fpdtype == order[1]
            locations == need[fpdtype]
            lacking == {i \in 1..Len(locations) :
                           [subtype |-> fpdtype, location |-> locations[i]] \notin fpd_log}
            h == Failed([hist EXCEPT !.confirmed = Len(locations) - Cardinality(lacking),
                                     !.unconfirmed = Cardinality(lacking)],
                        lacking # {}, "fpd upgrade")
        IN  IF Unconfirmed(fpd_log, fpdtype, locations) # {}
            THEN /\ pc' = "aborted"
                 /\ hist' = Error(h, "Failed to upgrade FPD subtype on location")
                 /\ UNCHANGED order
            ELSE /\ pc' = IF Len(order) = 1 THEN "done" ELSE "fpd_cmd"
                 /\ hist' = [h EXCEPT !.fsm = "", !.seen = <<>>]
                 /\ order' = Tail(order)
    /\ UNCHANGED <<poll, session_fd, sess, state, inventory, server_type, supported_hw,
                   iosxr_run_nodes, version, config_filename, files, x, phase, need>>

Next ==
    \/ Preflight
    \/ Gate
    \/ GetNodes
    \/ VersionCheck
    \/ NodeStatus
    \/ Ping
    \/ ResizeEusb
    \/ SaveConfigs
    \/ ConvertAdmin
    \/ ConvertXr
    \/ Upload
    \/ CopyCommand
    \/ CopyEvent
    \/ DirCheck
    \/ EnsureFpdPackage
    \/ CheckFpdVersions
    \/ FpdCommand
    \/ FpdEvent
    \/ FpdLog

Spec == Init /\ [][Next]_vars

\* ------------------------------------------------------------------------
\* wait_for_final_band (migration_lib.py)
\* ------------------------------------------------------------------------

poll_timeout == 1080
poll_time == 20

\* the longest a sample ("show platform vm" and its answer) takes, in seconds
MaxSampleDuration == 30

\* NODE of migration_lib = '(\d+/(?:RS?P)?\d+)', used with match()
MigrationLibNODE(s) ==
    LET p1 == Lit(s, Digits1(s, {1}), <<"/">>)
        p2 == p1 \cup Lit(s, Opt(s, Lit(s, p1, <<"R">>), <<"S">>), <<"P">>)
    IN  Digits1(s, p2) # {}

\* sample outputs of "show platform" in admin mode, as the columns
\* line[:10] and line[10:34] of the lines that start with a digit
AdminShowPlatformOutputs ==
    { <<[node |-> SubSeq(RSP0, 1, 6), type |-> TypeRSP4], [node |-> SubSeq(LC1, 1, 3), type |-> Type8X1]>>,
      <<[node |-> SubSeq(RSP0, 1, 6), type |-> TypeRSP4], [node |-> SubSeq(LC1, 1, 3), type |-> Type40G]>>,
      <<[node |-> SubSeq(RSP0, 1, 6), type |-> TypeRSP4]>> }

\* parse_exr_admin_show_platform: node -> node_type, which the trailing comma
\* of line 21 makes a tuple of one string
ParseExrAdminShowPlatform(output) ==
    LET last(node) == CHOOSE i \in 1..Len(output) :
                          /\ output[i].node = node
                          /\ \A j \in 1..Len(output) : output[j].node = node => j <= i
    IN  [node \in {output[i].node : i \in 1..Len(output)} |-> <<output[last(node)].type>>]

\* what iterating over supported_hw.get(exr_version), a dict, gives: its keys
SupportedCards(hw) ==
    {card \in {<<"R", "P">>, <<"L", "C">>, <<"F", "A", "N">>, <<"P", "E", "M">>} :
        \E key \in DOMAIN hw : card = CASE key = "RP" -> <<"R", "P">> [] key = "LC" -> <<"L", "C">>
                                         [] key = "FAN" -> <<"F", "A", "N">>
                                         [] key = "PEM" -> <<"P", "E", "M">>}

\* get_all_supported_nodes: "card in node_type" is membership in the tuple
GetAllSupportedNodes(inventory_, supported_cards) ==
    {node \in DOMAIN inventory_ :
        /\ MigrationLibNODE(node)
        /\ \E card \in supported_cards :
               \E i \in 1..Len(inventory_[node]) : inventory_[node][i] = card}

\* the nodes of the device that are RSP/RP/LC of a type supported for the release
ExpectedNodes(inventory_, hw) ==
    {node \in DOMAIN inventory_ :
        MigrationLibNODE(node) /\ TypeSupported(inventory_[node][1], hw.RP \o hw.LC)}

\* sample outputs of "show platform vm": the lines that start with a digit,
\* as the node name and the columns 48 to 63 (the SW status)
VmOutputs ==
    { <<[node |-> RSP0, status |-> "FINAL Band"], [node |-> LC1, status |-> "FINAL Band"]>>,
      <<[node |-> RSP0, status |-> "FINAL Band"], [node |-> LC1, status |-> "Booting"]>>,
      <<[node |-> RSP0, status |-> "FINAL Band"]>>,
      <<>> }

\* line 77: node in output (only the node names of the output hold a "/")
PresentIn(node, output) == \E i \in 1..Len(output) : Contains(output[i].node, node)

\* check_sw_status
CheckSwStatus(output) == \A i \in 1..Len(output) : output[i].status = "FINAL Band"

\* mutant: the loop is left only when the time waited is beyond the timeout
DeadlinePassed(time_waited) == time_waited > poll_timeout

\* line 71: time_waited >= timeout
DeadlineReached(time_waited) == time_waited >= poll_timeout

workflow == <<pc, session_fd, sess, state, inventory, server_type, supported_hw,
              iosxr_run_nodes, version, config_filename, files, x, phase, need, order, hist>>

PollInit ==
    /\ pc = "idle"
    /\ session_fd = FALSE
    /\ sess = Session(FALSE, "", "not sent")
    /\ state = 0
    /\ inventory = <<>>
    /\ server_type = "None"
    /\ supported_hw = HwFull
    /\ iosxr_run_nodes = {}
    /\ version = <<>>
    /\ config_filename = ""
    /\ files = <<>>
    /\ x = 0
    /\ phase = "checks"
    /\ need = <<>>
    /\ order = <<>>
    /\ hist = NoHistory
    /\ poll = [PollIdle EXCEPT !.pc = "start"]

\* lines 55-65: the release, its entry in the table, the supported nodes
PollStart ==
    /\ poll.pc = "start"
    /\ \E version_found \in BOOLEAN, hw_entry \in BOOLEAN, output \in AdminShowPlatformOutputs :
        LET inv == ParseExrAdminShowPlatform(output)
        IN  IF ~version_found \/ ~hw_entry
            THEN poll' = [poll EXCEPT !.pc = "done", !.result = "PluginError"]
            ELSE poll' = [poll EXCEPT !.pc = "loop",
                                      !.supported_nodes = GetAllSupportedNodes(inv, SupportedCards(supported_hw)),
                                      !.expected = ExpectedNodes(inv, supported_hw)]
    /\ UNCHANGED workflow

\* lines 70-73: the deadline test, then the sleep
PollWait ==
    /\ poll.pc = "loop"
    /\ LET time_waited == poll.time_waited + poll_time
       IN  IF DeadlineReached(time_waited)
           THEN poll' = [poll EXCEPT !.pc = "done", !.result = "False", !.time_waited = time_waited]
           ELSE poll' = [poll EXCEPT !.pc = "sample", !.time_waited = time_waited,
                                     !.slept = @ + poll_time, !.elapsed = @ + poll_time]
    /\ UNCHANGED workflow

\* lines 74-81: a sample, which takes some time, and its test
PollSample ==
    /\ poll.pc = "sample"
    /\ \E output \in VmOutputs, duration \in {0, MaxSampleDuration} :
        LET all_nodes_present == \A node \in poll.supported_nodes : PresentIn(node, output)
            p == [poll EXCEPT !.samples = @ + 1, !.elapsed = @ + duration]
        IN  IF all_nodes_present /\ CheckSwStatus(output)
            THEN poll' = [p EXCEPT !.pc = "done", !.result = "True", !.output = output]
            ELSE poll' = [p EXCEPT !.pc = "loop"]
    /\ UNCHANGED workflow

PollNext ==
    \/ PollStart
    \/ PollWait
    \/ PollSample

\* the loop is sequential code: a step that can be taken is taken
PollSpec == PollInit /\ [][PollNext]_vars /\ WF_vars(PollNext)

\* ------------------------------------------------------------------------
\* Plugin.run of the node-status plugin, run on its own for any ctx.family
\* ------------------------------------------------------------------------

\* ctx.family: the two families the parser knows and one it does not
Families == {"ASR9K", "CRS", "NCS6K"}

\* a line of the CRS table: node, type, PLIM, state, config state
Line5(node, type, plim, st, cfg) == <<node, type, plim, st, cfg>>

\* sample outputs of "admin show platform": those of an ASR9K, those of a CRS
\* and one without any node line
NodeStatusOutputs ==
    ShowPlatformOutputs \cup
    { <<HeaderLine, Line5(LC1, Type8X1, "40-10GbE", "IOS XR RUN", "PWR,NSHUT,MON")>>,
      <<HeaderLine, Line5(LC1, Type8X1, "N/A", "IN-RESET", "NPWR,NSHUT,MON")>>,
      <<HeaderLine>>,
      <<HeaderLine, Line3(FT0, TypeFAN, "READY")>>,
      <<HeaderLine, Line4(RSP0, TypeRSP4, "IOS XR RUN", "PWR,NSHUT,MON"),
        Line4(PM0, Type3KW, "READY", "PWR,NSHUT,MON")>>,
      <<HeaderLine, Line4(RSP0, TypeRSP4, "IOS XR RUN", "PWR,NSHUT,MON"),
        Line4(LC1, Type8X1, "IOS XR RUN", "PWR,NSHUT,MON"),
        Line4(PM0, Type40G, "UNPOWERED", "NPWR,NSHUT,MON")>>,
      <<HeaderLine, Line4(RSP0, TypeRSP4, "IOS XR RUN", "PWR,NSHUT,MON"),
        Line4(LC1, Type8X1, "UNPOWERED", "NPWR,NSHUT,MON")>>,
      <<HeaderLine, Line4(RSP0, TypeRSP4, "BOOTING", "PWR,NSHUT,MON"),
        Line4(LC1, Type8X1, "IN-RESET", "PWR,NSHUT,MON")>> }

NodeStatusInit ==
    /\ pc = "node_status_run"
    /\ session_fd \in BOOLEAN
    /\ sess = Session(session_fd, "", "not sent")
    /\ state = 0
    /\ inventory \in StoredInventories
    /\ server_type = "None"
    /\ supported_hw = HwEmpty
    /\ iosxr_run_nodes = {}
    /\ version = <<>>
    /\ config_filename = ""
    /\ files = <<>>
    /\ x = 0
    /\ phase = "checks"
    /\ need = <<>>
    /\ order = <<>>
    /\ hist = NoHistory
    /\ poll = PollIdle

\* Plugin.run: the command, _parse_show_platform, the for/else over the
\* inventory. None has no items(): the AttributeError of line 106, like the
\* ValueError of an unpacking, is an exception nothing handles; ctx.error
\* raises PluginError; otherwise the inventory is saved and True returned.
\* The loop breaks at the first CPU node in an invalid state in the order of
\* the dictionary, which the code does not fix: any such node may be the one
\* the warning names (hist.warned).
NodeStatusRun ==
    /\ pc = "node_status_run"
    /\ \E family \in Families, output \in NodeStatusOutputs :
        LET r == ParseShowPlatform(family, output)
            h == [Sent(hist, "admin show platform")
                     EXCEPT !.family = family, !.parse = r.kind, !.output = output]
        IN  IF r.kind # "inventory"
            THEN /\ pc' = "crashed"
                 /\ hist' = h
                 /\ UNCHANGED inventory
            ELSE IF ~AllNodesValid(r.inv)
            THEN /\ pc' = "aborted"
                 /\ \E key \in DOMAIN r.inv :
                        /\ HasCpu(key)
                        /\ r.inv[key].state \notin NodeStatusValidState
                        /\ hist' = [Error(h, "Not all nodes in correct state. Upgrade can not proceed")
                                       EXCEPT !.warned = {key}]
                 /\ UNCHANGED inventory
            ELSE /\ pc' = "returned True"
                 /\ hist' = h
                 /\ inventory' = r.inv
    /\ UNCHANGED <<poll, session_fd, sess, state, server_type, supported_hw, iosxr_run_nodes,
                   version, config_filename, files, x, phase, need, order>>

NodeStatusNext == NodeStatusRun

NodeStatusSpec == NodeStatusInit /\ [][NodeStatusNext]_vars

\* ------------------------------------------------------------------------
\* A node-status run, then a Pre-Migrate run that reads what it stored
\* ------------------------------------------------------------------------

\* Plugin.run of Pre-Migrate starts after a node-status run that returned True
StartPreMigrate ==
    /\ pc = "returned True"
    /\ pc' = "start"
    /\ hist' = [NoHistory EXCEPT !.family = hist.family, !.parse = hist.parse,
                                 !.output = hist.output]
    /\ UNCHANGED <<poll, session_fd, sess, state, inventory, server_type, supported_hw,
                   iosxr_run_nodes, version, config_filename, files, x, phase, need, order>>

ScanThenGateNext ==
    \/ NodeStatusRun
    \/ StartPreMigrate
    \/ Preflight
    \/ Gate
    \/ GetNodes

ScanThenGateSpec == NodeStatusInit /\ [][ScanThenGateNext]_vars

\* ------------------------------------------------------------------------
\* _check_fpd on reports that hold subtypes whose names contain one another
\* ------------------------------------------------------------------------

\* reports of at most MaxFpdRows rows with the subtypes fsbl, fcfsbl and cbc
FpdReports ==
    UNION {[1..n -> [location : {RSP0, LC1}, subtype : {"fsbl", "fcfsbl", "cbc"},
                     upgrade : {"Yes", "No"}]] : n \in 0..MaxFpdRows}

CheckFpdInit ==
    /\ pc = "check_fpd"
    /\ session_fd = FALSE
    /\ sess = Session(FALSE, "", "not sent")
    /\ state = 0
    /\ inventory = <<>>
    /\ server_type = "None"
    /\ supported_hw = HwFull
    /\ iosxr_run_nodes \in SUBSET {RSP0, LC1}
    /\ version = <<>>
    /\ config_filename = ""
    /\ files = <<>>
    /\ x = 0
    /\ phase = "fpd"
    /\ need = <<>>
    /\ order = <<>>
    /\ \E fpdtable \in FpdReports : hist = [NoHistory EXCEPT !.report = fpdtable]
    /\ poll = PollIdle

\* the call of line 628
CheckFpdRun ==
    /\ pc = "check_fpd"
    /\ pc' = "checked"
    /\ need' = CheckFpd(hist.report, iosxr_run_nodes)
    /\ hist' = Sent(hist, "show hw-module fpd location all")
    /\ UNCHANGED <<poll, session_fd, sess, state, inventory, server_type, supported_hw,
                   iosxr_run_nodes, version, config_filename, files, x, phase, order>>

CheckFpdNext == CheckFpdRun

CheckFpdSpec == CheckFpdInit /\ [][CheckFpdNext]_vars

\* ------------------------------------------------------------------------
\* Properties
\* ------------------------------------------------------------------------

\* the copy of a file is running or has just ended, with the table named
InCopy(table) == phase \in {"configs", "image"} /\ CopyTable = table /\ hist.fsm # ""

\* C1: for the FTP/TFTP and the SFTP copy alike, when the automaton succeeded
\* and the output of "dir <dest>" contains "No such file", a fatal error is
\* raised: the run is aborted and goes on to no other file or step.
C1_DirListingRejected ==
    hist.dir = "No such file" => pc = "aborted" /\ hist.errors = 1

C1_Witness ==
    /\ hist.dir = "No such file" /\ hist.fsm = "ok" /\ pc = "aborted"
    /\ server_type = "SFTP" /\ phase = "image"

\* C2: when the log fetched after a successful upgrade automaton lacks the
\* confirmation line of even one location of the subtype's need-list, the
\* controller raises a fatal error and never returns True, however many of
\* the other locations are confirmed.
C2_MissingConfirmationIsFatal ==
    hist.unconfirmed > 0 => pc = "aborted" /\ hist.errors > 0

C2_Witness ==
    /\ hist.unconfirmed = 1 /\ hist.confirmed >= 1 /\ pc = "aborted" /\ hist.fsm = "ok"

\* C3 as claimed: at the moment send_password writes the password to the
\* device, the transcript sink is not attached.
C3_SinkDetachedWhenPasswordSent == sess.password_sent # "sink attached"

\* C3 as amended: send_password detaches the sink right after writing the
\* password and before any further output is read: whenever the SFTP automaton
\* waits for output after the password was sent, the sink is not attached.
C3_SinkDetachedAfterPasswordSent ==
    (pc = "copy_fsm" /\ sess.password_sent # "not sent") => ~sess.logfile_read

C3_Witness ==
    /\ pc = "copy_fsm" /\ CopyTable = "sftp" /\ state = 1
    /\ sess.password_sent = "sink attached" /\ ~sess.logfile_read

\* C4: whichever way the SFTP copy of a file ends, a sink that was attached
\* when the sftp command was sent is attached again.
C4_SinkReattachedOnEveryExit ==
    (InCopy("sftp") /\ hist.fsm \in {"ok", "failed"} /\ hist.sink_cmd) => sess.logfile_read

\* the checks of Plugin.run that validate the device before it is changed
ValidationFailures ==
    {"hardware support entry", "hardware gate", "supported nodes", "os type",
     "minimum release", "node status"}

\* C5: when a validation check fails, the run is aborted and no command that
\* changes the device has been sent.
C5_ValidationAbortsBeforeMutation ==
    hist.failed \cap ValidationFailures # {} => pc \in {"aborted", "crashed"} /\ hist.sent = {}

C5_Witness ==
    /\ "node status" \in hist.failed /\ pc = "aborted" /\ hist.sent = {}

\* C6: Plugin.run returns True only if no gating, transfer or upgrade step failed.
C6_TrueOnlyIfEveryStepSucceeded ==
    pc = "done" => hist.failed = {}

C6_Witness ==
    /\ pc = "done" /\ hist.failed = {} /\ DOMAIN need # {}
    /\ {"resize_eusb", "fpd_upgrade"} \subseteq hist.sent

\* C7: the SFTP run that receives the password prompt, the overwrite
\* confirmation and "bytes copied in" reports success, with or without a
\* session_fd.
C7_SftpHappyPathSucceeds ==
    (InCopy("sftp") /\ hist.seen = <<PasswordText, SftpOverwriteText, CopiedText>>)
        => hist.fsm = "ok"

\* C8: "Download aborted." received in state 0, 1 or 2 of the SFTP table ends
\* the run as a failure with the message "Error copying file." and the
\* workflow is aborted; no run that received it succeeds.
C8_DownloadAbortedFails ==
    (InCopy("sftp") /\ \E i \in DOMAIN hist.seen : hist.seen[i] = AbortedText)
        => /\ hist.fsm = "failed"
           /\ sess.message = "Error copying file."
           /\ pc = "aborted"

C8_Witness ==
    /\ InCopy("sftp") /\ hist.seen = <<PasswordText, SftpOverwriteText, AbortedText>>
    /\ hist.fsm = "failed"

\* C9: in the FTP/TFTP table the "no such source file" and the "%Error
\* copying" markers, received in any of the states 0 to 3, end the run as a
\* failure with the message "Error copying file."; no run that received one
\* of them succeeds.
C9_CopyErrorMarkersFail ==
    (InCopy("ftp") /\ \E i \in DOMAIN hist.seen : hist.seen[i] \in {NoSourceText, ErrorCopyingText})
        => /\ hist.fsm = "failed"
           /\ sess.message = "Error copying file."
           /\ pc = "aborted"

C9_Witness ==
    /\ InCopy("ftp") /\ hist.seen = <<FilenameText, OverwriteText, CopiedText, NoSourceText>>
    /\ hist.fsm = "failed"

\* C10 as claimed: both confirmations are optional: the run that receives
\* "bytes copied in" in state 0 goes on to succeed at the prompt, like the run
\* through the filename confirmation only and the run through both.
C10_BothConfirmationsOptional ==
    InCopy("ftp") =>
        /\ (hist.seen # <<>> /\ hist.seen[1] = CopiedText) => hist.fsm # "failed"
        /\ hist.seen = <<FilenameText, CopiedText, PromptText>> => hist.fsm = "ok"
        /\ hist.seen = <<FilenameText, OverwriteText, CopiedText, PromptText>> => hist.fsm = "ok"

\* C10 as amended: only the overwrite confirmation is optional: the run
\* through the filename confirmation only and the run through both succeed,
\* and a run that receives "bytes copied in" in state 0 fails.
C10_OverwriteConfirmationOptional ==
    InCopy("ftp") =>
        /\ (hist.seen # <<>> /\ hist.seen[1] = CopiedText) => hist.fsm = "failed"
        /\ hist.seen = <<FilenameText, CopiedText, PromptText>> => hist.fsm = "ok"
        /\ hist.seen = <<FilenameText, OverwriteText, CopiedText, PromptText>> => hist.fsm = "ok"

C10_Witness ==
    /\ InCopy("ftp") /\ hist.seen = <<FilenameText, CopiedText, PromptText>> /\ hist.fsm = "ok"

\* the upgrade automaton of a subtype is running or has just ended
InFpd == phase = "fpd" /\ hist.fsm # ""

\* C11: the upgrade automaton reports success for the sequence without a
\* confirmation (upgrade-ended, prompt), for the sequence with one
\* confirmation and for the sequence with two.
C11_FpdConfirmationsOptional ==
    InFpd =>
        /\ (hist.seen # <<>> /\ hist.seen[1] = UpgradeEndText) => hist.fsm # "failed"
        /\ hist.seen = <<ContinueText, UpgradeEndText, PromptText>> => hist.fsm = "ok"
        /\ hist.seen = <<ContinueText, ContinueSecondText, UpgradeEndText, PromptText>>
               => hist.fsm = "ok"

\* C12: the upgrade automaton reports success only for a prompt received in
\* state 3, that is after "FPD upgrade has ended." was matched; a prompt
\* received in state 1 or 2 is a failure with "Error upgrading FPD.", a prompt
\* received in state 0 is a failure.
C12_SuccessOnlyAfterUpgradeEnded ==
    InFpd =>
        /\ hist.fsm = "ok" =>
               /\ Len(hist.seen) >= 2
               /\ hist.seen[Len(hist.seen)] = PromptText
               /\ hist.seen[Len(hist.seen) - 1] = UpgradeEndText
        /\ (hist.seen # <<>> /\ hist.seen[Len(hist.seen)] = PromptText
              /\ \A i \in DOMAIN hist.seen : hist.seen[i] # UpgradeEndText)
               => /\ hist.fsm = "failed"
                  /\ Len(hist.seen) > 1 => sess.message = "Error upgrading FPD."

C12_Witness ==
    /\ InFpd /\ hist.seen = <<ContinueText, ContinueSecondText, PromptText>>
    /\ hist.fsm = "failed" /\ sess.message = "Error upgrading FPD."

\* the table of the automaton that is running
RunningTable == IF pc = "fpd_fsm" THEN "fpd" ELSE CopyTable

\* the transitions of a list that apply to an event in a state
Applicable(transitions, event, st) ==
    {i \in 1..Len(transitions) : transitions[i].event = event /\ st \in transitions[i].states}

\* C13: in each of the three tables an event matched in a state has at most
\* one applicable transition; the text of the "no such source file" marker,
\* which the generic "%Error copying" pattern matches too, is reported as the
\* specific event, declared before the generic one in the event list and in
\* the transition list, and ends the run the same way each time.
C13_FirstDeclaredEntryFires ==
    /\ \A table \in {"ftp", "sftp", "fpd"}, st \in 0..3 :
           \A i \in 1..Len(Events(table)) :
               Cardinality(Applicable(Transitions(table, CopyTimeout), Events(table)[i], st)) <= 1
    /\ Matches("NO_SUCH_FILE", NoSourceText) /\ Matches("ERROR_COPYING", NoSourceText)
    /\ Expect(FtpEvents, NoSourceText) = "NO_SUCH_FILE"
    /\ \A st \in 0..3 :
           LET trs == FtpTransitions(CopyTimeout)
           IN  \A i \in Applicable(trs, "NO_SUCH_FILE", st), j \in Applicable(trs, "ERROR_COPYING", st) :
                   i < j
    /\ pc \in {"copy_fsm", "fpd_fsm"} =>
           \A text \in Awaited(Events(RunningTable)) :
               Cardinality(Applicable(Transitions(RunningTable, CopyTimeout),
                                      Expect(Events(RunningTable), text), state)) <= 1
    /\ (InCopy("ftp") /\ hist.seen # <<>> /\ hist.seen[Len(hist.seen)] = NoSourceText)
           => hist.fsm = "failed" /\ sess.message = "Error copying file."

C13_Witness ==
    /\ InCopy("ftp") /\ hist.seen = <<FilenameText, NoSourceText>>
    /\ hist.fsm = "failed" /\ pc = "aborted"

\* the roles of the gate in the order it tries them, and those whose pattern
\* a node name matches
GateRoles == <<"RP", "FAN", "PEM">>

RolesOf(node_name) == {i \in 1..3 : PatternMatch(GateRoles[i], node_name)}

\* C14: for every inventory, a node that matches a role of the gate and whose
\* state is outside VALID_STATE is answered with the "not in valid state"
\* error, so that no run passes the gate with such a node; a node whose type
\* holds a supported substring of its role is never answered with the
\* "unsupported" error.
C14_GateStateAndTypeChecks ==
    /\ (pc = "gate" /\ HwTruthy(supported_hw)) =>
           \A k \in DOMAIN inventory :
               \A i \in RolesOf(k) :
                   /\ inventory[k].state \notin VALID_STATE
                          => GateNode(k, inventory[k], supported_hw) = "invalid_state"
                   /\ TypeSupported(inventory[k].type, supported_hw[GateRoles[i]])
                          => GateNode(k, inventory[k], supported_hw) \in {"ok", "invalid_state"}
    /\ (pc = "nodes" /\ hist.gate = "ran") =>
           \A k \in DOMAIN inventory : RolesOf(k) # {} => inventory[k].state \in VALID_STATE
    /\ (pc = "aborted" /\ hist.gate = "ran" /\ hist.abort = "unsupported") =>
           \E k \in DOMAIN inventory :
               \E i \in RolesOf(k) : ~TypeSupported(inventory[k].type, supported_hw[GateRoles[i]])

C14_Witness ==
    /\ pc = "aborted" /\ hist.gate = "ran" /\ hist.abort = "invalid_state"
    /\ \E k \in DOMAIN inventory :
           /\ FAN(k) /\ inventory[k].state \notin VALID_STATE
           /\ TypeSupported(inventory[k].type, supported_hw.FAN)

\* C15: a run in which the gate was applied goes on only if every line card
\* (a node named rack/slot/CPUn) is in a state of VALID_STATE and of a type
\* that holds one of the supported LC substrings.
C15_GateChecksLineCards ==
    (pc = "nodes" /\ hist.gate = "ran" /\ supported_hw.LC # <<>>) =>
        \A k \in DOMAIN inventory :
            LINECARD_RE(k) => /\ inventory[k].state \in VALID_STATE
                              /\ TypeSupported(inventory[k].type, supported_hw.LC)

\* C16: the answer of the gate for a node is the answer of the check for the
\* first role, in the order RP, FAN, PEM, whose pattern the name matches, and
\* no other role's list is looked at; a node that matches no pattern is
\* passed over whatever its state and type, and every error the gate raises
\* is the answer for a node that matches a role.
C16_FirstMatchingRoleDecides ==
    /\ (pc = "gate" /\ HwTruthy(supported_hw)) =>
           \A k \in DOMAIN inventory :
               LET answer == GateNode(k, inventory[k], supported_hw)
                   first == CHOOSE i \in RolesOf(k) : \A j \in RolesOf(k) : i <= j
               IN  IF RolesOf(k) = {} THEN answer = "no_match"
                   ELSE answer = CheckIfSupportedAndInValidState(
                                     k, GateRoles[first], inventory[k], supported_hw[GateRoles[first]])
    /\ (pc = "aborted" /\ hist.gate = "ran") =>
           \E k \in DOMAIN inventory :
               /\ RolesOf(k) # {}
               /\ \/ hist.abort = "invalid_state" /\ inventory[k].state \notin VALID_STATE
                  \/ hist.abort \in {"unsupported", "missing_list"}
                       /\ \E i \in RolesOf(k) :
                              ~TypeSupported(inventory[k].type, supported_hw[GateRoles[i]])

C16_Witness ==
    /\ pc = "nodes" /\ hist.gate = "ran"
    /\ \E k \in DOMAIN inventory : RolesOf(k) = {} /\ inventory[k].state \notin VALID_STATE

\* C17: the time from entering the loop of wait_for_final_band to its return,
\* sleeps and samples together, is at most timeout plus the duration of one
\* sample.
C17_ElapsedWithinTimeout ==
    poll.elapsed <= poll_timeout + MaxSampleDuration

\* the samples that fit before the deadline: ceil(timeout / poll_time) - 1
MaxSamples == ((poll_timeout + poll_time - 1) \div poll_time) - 1

\* C18: the deadline is tested before the sleep: a sample is taken only while
\* the time waited is below the timeout, the sleeps add up to less than the
\* timeout, at most MaxSamples samples are taken, False is returned only at
\* the deadline, and the loop always ends with True or False.
C18_DeadlineBeforeSleep ==
    /\ [](/\ poll.pc = "sample" => poll.time_waited < poll_timeout
          /\ poll.slept < poll_timeout
          /\ poll.slept = poll.samples * poll_time \/ poll.slept = (poll.samples + 1) * poll_time
          /\ poll.samples <= MaxSamples
          /\ poll.result = "False" => poll.time_waited >= poll_timeout /\ poll.samples = MaxSamples)
    /\ (poll.pc = "loop") ~> (poll.result \in {"True", "False"})

C18_Witness ==
    /\ poll.result = "False" /\ poll.samples = MaxSamples /\ poll.slept = MaxSamples * poll_time

\* C19: True is returned only on a sample in which every supported node of
\* the device has a line of its own and every line is in FINAL Band.
C19_TrueOnlyIfAllPresentAndFinal ==
    poll.result = "True" =>
        /\ \A node \in poll.expected :
               \E i \in 1..Len(poll.output) : IsPrefix(node \o <<"/">>, poll.output[i].node)
        /\ \A i \in 1..Len(poll.output) : poll.output[i].status = "FINAL Band"

\* C20: when the family is neither ASR9K nor CRS and the parsing of the
\* inventory fails for it (it returns None after its warning), the node-status
\* run treats this as "no inventory available" and does not end in an
\* exception that nothing handles.
C20_UnsupportedFamilyNoCrash ==
    (hist.family \notin {"", "ASR9K", "CRS"} /\ hist.parse = "None") => pc # "crashed"

\* C21: for ASR9K and CRS, an output with a CPU line whose number of columns
\* is not the one the family expects (4 and 5) makes the parsing fail with an
\* error and nothing is saved; every entry that is saved has the type, state
\* and config state of a line of that node with the expected columns.
C21_ColumnMismatchFailsLoudly ==
    LET out == hist.output
        n == Columns(hist.family)
        cpu == {i \in 1..Len(out) : IsDigit(out[i][1][1]) /\ EndsInCpu(out[i][1])}
    IN  (hist.family \in {"ASR9K", "CRS"} /\ pc # "node_status_run") =>
            /\ (\E i \in cpu : Len(out[i]) # n) =>
                   pc = "crashed" /\ hist.parse = "ValueError" /\ inventory \in StoredInventories
            /\ pc = "returned True" =>
                   \A node \in DOMAIN inventory :
                       \E i \in cpu : /\ out[i][1] = node /\ Len(out[i]) = n
                                      /\ inventory[node] = [type |-> out[i][2],
                                                            state |-> out[i][n - 1],
                                                            config_state |-> out[i][n]]

C21_Witness ==
    /\ pc = "crashed" /\ hist.parse = "ValueError" /\ hist.family = "CRS"
    /\ \E i \in 1..Len(hist.output) : hist.output[i][1] = RSP0 /\ Len(hist.output[i]) = 4

\* C22: every aborted run has reported exactly one error: the error reporter
\* was invoked once on the path that aborted it, also when the abort comes
\* from the node-status sub-step or from an install sub-plugin.
C22_OneErrorPerAbortedRun ==
    pc = "aborted" => hist.errors = 1

\* C23: in the three tables, when the wait of a running automaton ends with
\* the timeout marker, or with an event that has no applicable transition in
\* the current state, the run ends as a failure and the workflow is aborted
\* with an error; it goes on to no further step.
C23_TimeoutAndUnhandledEventFail ==
    [][(pc \in {"copy_fsm", "fpd_fsm"} /\ Len(hist'.seen) = Len(hist.seen) + 1) =>
          LET text == hist'.seen[Len(hist'.seen)]
              event == Expect(Events(RunningTable), text)
          IN  (text = "" \/ Applicable(Transitions(RunningTable, CopyTimeout), event, state) = {})
                  => /\ pc' = "aborted"
                     /\ hist'.fsm = "failed"
                     /\ hist'.errors = hist.errors + 1]_vars

C23_Witness ==
    /\ pc = "aborted" /\ hist.fsm = "failed" /\ phase = "fpd"
    /\ hist.seen = <<ContinueText, UpgradeEndText, "">>

\* C24: in the SFTP table the "bytes copied in" marker and the prompt, when
\* received in state 1 or 2 (after the password prompt), end the run as a
\* success; a prompt received in state 0 does not.
C24_SftpSuccessFromAuthenticatedStates ==
    InCopy("sftp") =>
        /\ hist.seen \in {<<PasswordText, CopiedText>>, <<PasswordText, PromptText>>,
                          <<PasswordText, SftpOverwriteText, CopiedText>>,
                          <<PasswordText, SftpOverwriteText, PromptText>>}
               => hist.fsm = "ok"
        /\ hist.seen = <<PromptText>> => hist.fsm = "failed"

\* C25: the minimum-release error is raised exactly when the release of the
\* device, compared component by component as numbers, is below 5.3.3 (the
\* device running Classic XR), releases with components of several digits
\* included.
C25_NumericVersionComparison ==
    LET raised == hist.abort = "The minimal release version required for migration is 5.3.3."
    IN  /\ raised => "minimum release" \in hist.failed
        /\ ("minimum release" \in hist.failed /\ "os type" \notin hist.failed) => raised

\* C26: whenever the run of the conversion tool fails, by text on its error
\* output or by a banner whose Total and Known counts are missing or unequal,
\* the two diagnostic files are written before the error is raised (the files
\* being writable).
C26_TranscriptsBeforeConversionError ==
    (/\ pc = "aborted" /\ "conversion" \in hist.failed
     /\ ~hist.run.oserror /\ hist.run.writable
     /\ (hist.run.nox_error \/ ~hist.run.match \/ hist.run.total # hist.run.known))
        => hist.logs

\* a run of the tool that printed its banner and nothing on its error output,
\* the diagnostic files being writable
BannerRead == ~hist.run.oserror /\ ~hist.run.nox_error /\ hist.run.match /\ hist.run.writable

C28_NeedOnlyForExactSubtype ==
    pc = "checked" =>
        \A fpdtype \in DOMAIN need : \A i \in 1..Len(need[fpdtype]) :
            /\ need[fpdtype][i] \in iosxr_run_nodes
            /\ \E k \in 1..Len(hist.report) :
                   /\ hist.report[k].location = need[fpdtype][i]
                   /\ hist.report[k].subtype = fpdtype
                   /\ hist.report[k].upgrade = "No"

\* C29: the steps follow one another in the order checks (with the hardware
\* gate), configuration files, image, FPD; the FPD step starts only from a
\* verified directory listing of the image; an upgrade command has been sent
\* only in the FPD step, after a copy command, with a need mapping that holds
\* at least one location, all of them eligible nodes; with an empty need
\* mapping the run ends successfully and no upgrade command was sent.
C29_StepsInOrder ==
    /\ []((pc = "gate" => phase = "checks")
          /\ ("fpd_upgrade" \in hist.sent =>
                 /\ phase = "fpd"
                 /\ hist.sent \cap {"copy", "sftp"} # {}
                 /\ DOMAIN need # {}
                 /\ \A t \in DOMAIN need :
                        need[t] # <<>> /\ \A i \in 1..Len(need[t]) : need[t][i] \in iosxr_run_nodes))
    /\ [][/\ phase' # phase =>
                <<phase, phase'>> \in {<<"checks", "configs">>, <<"configs", "image">>,
                                       <<"image", "fpd">>}
          /\ (phase = "image" /\ phase' = "fpd") =>
                pc = "copy_dir" /\ hist.fsm = "ok" /\ hist'.dir = "listed" /\ pc' # "aborted"
          /\ (pc = "fpd_check" /\ pc' # pc /\ DOMAIN need' = {}) =>
                pc' = "done" /\ "fpd_upgrade" \notin hist'.sent]_vars

C29_Witness ==
    /\ pc = "fpd_fsm" /\ "fpd_upgrade" \in hist.sent /\ phase = "fpd"
    /\ DOMAIN need # {} /\ hist.dir = "listed"

\* C30: a copy command is sent only for the first file after the upload, or
\* after the automaton of the file before ended successfully and its
\* directory listing was verified; it is for the next file of the list or the
\* first of the next phase, never for the same file again; an upgrade command
\* follows the need check or the confirmed upgrade of the subtype before, for
\* a subtype not visited yet; an aborted run, after a timeout too, sends
\* nothing more.
C30_OneCommandAtATimeNoRetry ==
    /\ [](pc \in {"fpd_cmd", "fpd_fsm", "fpd_log"} =>
             \A i, j \in 1..Len(order) : i # j => order[i] # order[j])
    /\ [][/\ (pc' = "copy_cmd" /\ pc # "copy_cmd") =>
                \/ pc = "upload" /\ x' = 1
                \/ /\ pc = "copy_dir" /\ hist.fsm = "ok" /\ hist'.dir = "listed"
                   /\ \/ phase' = phase /\ x' = x + 1 /\ files' = files
                      \/ phase = "configs" /\ phase' = "image" /\ x = Len(files) /\ x' = 1
          /\ pc = "copy_cmd" =>
                pc' = "copy_fsm" /\ x' = x /\ files' = files /\ hist'.seen = <<>>
          /\ (pc' = "fpd_cmd" /\ pc # "fpd_cmd") =>
                \/ pc = "fpd_check"
                \/ pc = "fpd_log" /\ hist.fsm = "ok" /\ order' = Tail(order)
          /\ pc = "fpd_cmd" => pc' = "fpd_fsm" /\ order' = order
          /\ pc \in {"aborted", "crashed", "done"} => hist'.sent = hist.sent]_vars

C30_Witness ==
    /\ pc = "aborted" /\ x = 2 /\ phase = "configs" /\ hist.seen = <<"">>
    /\ hist.fsm = "failed" /\ hist.sent \cap {"copy", "sftp"} # {}

\* C31: get_all_supported_nodes returns exactly the RSP/RP/LC nodes of the
\* admin "show platform" output whose card type contains one of the supported
\* card substrings of the release.
C31_SupportedNodesAreTheExpectedOnes ==
    (poll.pc \in {"loop", "sample"} \/ poll.result \in {"True", "False"})
        => poll.supported_nodes = poll.expected

\* C32: the subtypes to visit are the keys of the need mapping, each once and
\* each with a non-empty list; the command of a subtype starts one automaton
\* run; the command of the next subtype is sent only after the run of the one
\* before succeeded and the log confirmed every location of its list; the run
\* is over when all are visited, and after a failure nothing more is sent.
C32_OneRunPerSubtypeInTurn ==
    [][/\ (pc = "fpd_check" /\ pc' = "fpd_cmd") =>
            /\ Len(order') = Cardinality(DOMAIN need')
            /\ {order'[i] : i \in 1..Len(order')} = DOMAIN need'
            /\ \A t \in DOMAIN need' : need'[t] # <<>>
       /\ (pc = "fpd_cmd" /\ pc' # pc) =>
            /\ pc' = "fpd_fsm" /\ state' = 0 /\ hist'.fsm = "running"
            /\ order' = order /\ need' = need
       /\ (pc = "fpd_log" /\ pc' \in {"fpd_cmd", "done"}) =>
            /\ hist.fsm = "ok"
            /\ hist'.unconfirmed = 0 /\ hist'.confirmed = Len(need[order[1]])
            /\ order' = Tail(order)
            /\ pc' = "done" <=> order' = <<>>
       /\ (pc \in {"fpd_fsm", "fpd_log"} /\ pc' = "aborted") =>
            /\ hist'.errors = hist.errors + 1
            /\ hist'.sent = hist.sent
       /\ pc = "aborted" => pc' = "aborted" /\ hist'.sent = hist.sent]_vars

C32_Witness ==
    /\ pc = "fpd_fsm" /\ Cardinality(DOMAIN need) = 2 /\ Len(order) = 1
    /\ hist.confirmed >= 1 /\ hist.unconfirmed = 0 /\ hist.fsm = "running"

\* C33: for ASR9K and CRS, the inventory the node-status run saves has an
\* entry for every line that starts with a digit and whose first column ends
\* in CPU and a digit, with the type, state and config state of the last such
\* line of the node, and no entry for any other line: none for a fan or
\* power-module row, whose first column ends in /SP.
C33_OnlyCpuLinesAreKept ==
    LET out == hist.output
        n == Columns(hist.family)
        suffix(node) == /\ Len(node) >= 4
                        /\ SubSeq(node, Len(node) - 3, Len(node) - 1) = <<"C", "P", "U">>
                        /\ IsDigit(node[Len(node)])
        cpu == {i \in 1..Len(out) : IsDigit(out[i][1][1]) /\ suffix(out[i][1])}
    IN  (hist.family \in {"ASR9K", "CRS"} /\ pc = "returned True") =>
            /\ DOMAIN inventory = {out[i][1] : i \in cpu}
            /\ \A i \in cpu :
                   (\A j \in cpu : out[j][1] = out[i][1] => j <= i) =>
                       inventory[out[i][1]] = [type |-> out[i][2], state |-> out[i][n - 1],
                                              config_state |-> out[i][n]]
            /\ \A node \in DOMAIN inventory : ~FAN(node) /\ ~PEM(node)

C33_Witness ==
    /\ pc = "returned True" /\ hist.family = "ASR9K"
    /\ \E i \in 1..Len(hist.output) : hist.output[i][1] = PM0 /\ Len(hist.output[i]) = 4
    /\ DOMAIN inventory = {RSP0}

\* C34: in the three tables the next state of every transition is -1 or above
\* every state the transition applies from; while a run goes on its state
\* only rises, and a run has received at most 4 events (FTP/TFTP, FPD) or 3
\* events (SFTP) when it ends.
C34_RunsAreBounded ==
    /\ [](/\ \A table \in {"ftp", "sftp", "fpd"} :
                LET trs == Transitions(table, CopyTimeout)
                IN  \A i \in 1..Len(trs) :
                        trs[i].next = -1 \/ \A st \in trs[i].states : trs[i].next > st
          /\ hist.fsm # "" =>
                Len(hist.seen) <= IF phase # "fpd" /\ CopyTable = "sftp" THEN 3 ELSE 4)
    /\ [][(pc \in {"copy_fsm", "fpd_fsm"} /\ pc' = pc) => state' > state]_vars

C34_Witness ==
    /\ InCopy("sftp") /\ hist.fsm = "ok"
    /\ hist.seen = <<PasswordText, SftpOverwriteText, CopiedText>>

\* C35: in the FTP/TFTP table the only transition that ends a run without
\* the error action is the prompt in state 3, and the only transition into
\* state 3 is the "bytes copied in" marker; a run that succeeded received the
\* marker and then the prompt.
C35_FtpSuccessOnlyAfterCopied ==
    LET trs == FtpTransitions(CopyTimeout)
    IN  /\ \A i \in 1..Len(trs) :
               /\ (trs[i].next = -1 /\ trs[i].action # "error") =>
                      trs[i].event = "PROMPT" /\ trs[i].states = {3}
               /\ trs[i].next = 3 => trs[i].event = "COPIED"
        /\ (InCopy("ftp") /\ hist.fsm = "ok") =>
               /\ Len(hist.seen) >= 2
               /\ hist.seen[Len(hist.seen)] = PromptText
               /\ hist.seen[Len(hist.seen) - 1] = CopiedText

C35_Witness ==
    /\ InCopy("ftp") /\ hist.fsm = "ok" /\ pc = "copy_dir"
    /\ hist.seen = <<FilenameText, OverwriteText, CopiedText, PromptText>>

\* C36: the stored inventory changes only when the node-status sub-step
\* stores the one it scanned; the hardware gate and the computation of the
\* supported nodes come before that step and are not come back to, so both
\* read the inventory stored before the run, and the supported nodes are not
\* computed again from the scanned one.
C36_GateReadsInventoryOfEarlierRun ==
    [][/\ inventory' # inventory => pc = "node_status" /\ pc' = "ping"
       /\ (pc' \in {"gate", "nodes"} /\ pc' # pc) => pc \in {"start", "gate"}
       /\ pc \in {"gate", "nodes"} => inventory' = inventory /\ pc' # "node_status"
       /\ iosxr_run_nodes' # iosxr_run_nodes =>
              /\ pc = "nodes"
              /\ iosxr_run_nodes' = SupportedIosxrRunNodes(inventory, supported_hw)
       /\ pc' = "node_status" => pc = "version" /\ iosxr_run_nodes # {}]_vars

C36_Witness ==
    /\ pc = "ping"
    /\ iosxr_run_nodes # SupportedIosxrRunNodes(inventory, supported_hw)

C38_ReturnsTrueIffAllCpuNodesValid ==
    [][LET scan == ParseShowPlatform(hist'.family, hist'.output)
           valid(key) == scan.inv[key].state \in
                             {"IOS XR RUN", "PRESENT", "READY", "FAILED", "OK", "DISABLED",
                              "UNPOWERED", "ADMIN DOWN", "NOT ALLOW ONLIN"}
       IN  (pc = "node_status_run" /\ hist'.parse = "inventory") =>
               /\ pc' \in {"returned True", "aborted"}
               /\ pc' = "returned True" <=> \A key \in DOMAIN scan.inv : valid(key)
               /\ pc' = "returned True" =>
                      /\ inventory' = scan.inv
                      /\ hist'.errors = 0 /\ hist'.warned = {}
               /\ pc' = "aborted" =>
                      /\ inventory' = inventory
                      /\ hist'.errors = 1
                      /\ hist'.abort = "Not all nodes in correct state. Upgrade can not proceed"
                      /\ \E key \in DOMAIN scan.inv : ~valid(key) /\ hist'.warned = {key}]_vars

C38_Witness ==
    /\ pc = "aborted" /\ hist.parse = "inventory"
    /\ inventory # ParseShowPlatform(hist.family, hist.output).inv
    /\ \E a, b \in DOMAIN ParseShowPlatform(hist.family, hist.output).inv :
           /\ ParseShowPlatform(hist.family, hist.output).inv[a].state = "IOS XR RUN"
           /\ hist.warned = {b}

\* C39: the configuration step of a run does not end in an exception nothing
\* handles; a context without pre_migrate_config_filename is the one case in
\* which the model lets that step end so (SaveConfigs), with no error raised
\* by the run itself.
C39_MissingConfigFilenameCarriesOn ==
    ~(pc = "crashed" /\ "configuration" \in hist.failed /\ hist.errors = 0)

\* C40: with the override set the step of the gate checks no node: it goes on
\* to the supported-node computation without an error, whatever the inventory
\* holds; and that computation still aborts the run when no RSP, RP or line
\* card node is both in state IOS XR RUN and of a supported RP or LC type.
C40_OverrideSkipsGateOnly ==
    [][/\ (pc = "gate" /\ hist'.override) =>
              /\ pc' = "nodes"
              /\ hist'.gate = "skipped"
              /\ hist'.errors = hist.errors
              /\ "hardware gate" \notin hist'.failed
       /\ (/\ pc = "nodes" /\ hist.override
           /\ ~\E key \in DOMAIN inventory :
                  /\ NODE(key)
                  /\ inventory[key].state = "IOS XR RUN"
                  /\ \/ TypeSupported(inventory[key].type, supported_hw.RP)
                     \/ TypeSupported(inventory[key].type, supported_hw.LC)) =>
              /\ pc' = "aborted"
              /\ hist'.errors = hist.errors + 1
              /\ "supported nodes" \in hist'.failed]_vars

C40_Witness ==
    /\ pc = "nodes" /\ hist.override /\ hist.gate = "skipped"
    /\ HwTruthy(supported_hw)
    /\ \E key \in DOMAIN inventory :
           GateNode(key, inventory[key], supported_hw) \in {"invalid_state", "unsupported"}
    /\ \A key \in DOMAIN inventory : inventory[key].state # "IOS XR RUN"

====
